---- MODULE Spec2Model ----
(***************************************************************************)
(* Verification model of the tender scraper (roshan3101/uch-assignment).   *)
(*                                                                         *)
(* The module holds several specifications over one set of variables:      *)
(*   SpecClean    scraper/cleaner.py   clean_and_deduplicate               *)
(*   SpecGoto     browser/driver.py    PageNavigator.goto                  *)
(*   SpecBrowser  browser/driver.py    BrowserManager                      *)
(*   SpecDetails  browser/extractor.py extract_tender_details              *)
(*   Spec         scrape.py            main / scrape_tenders               *)
(* Text is a sequence of one-character strings.                            *)
(***************************************************************************)
EXTENDS Integers, Sequences, FiniteSets, TLC

\* ------------------------------------------------------------------ bounds
MaxBatch == 3
MaxContexts == 3
MaxApiPages == 2
MaxList == 2
MaxStarts == 2
\* longest text after `var ecvvalue =` in a page's markup
MaxScriptLen == 3
\* longest text given to clean_text
MaxTextLen == 5
\* latest clock reading, highest counter value and most finalize calls of a
\* tracker on its own
MaxClock == 2
MaxCount == 1
MaxFinalize == 2
\* most table rows of a detail page
MaxRows == 2

\* ------------------------------------------------------------------- state
\* clean_and_deduplicate: position, argument, and the two local lists
VARIABLES cad_pc, cad_tenders, cad_cleaned, cad_unique

\* PageNavigator.goto: position, argument, loop variable, return value, and
\* the observable trace of load attempts and backoff sleeps
VARIABLES nav_pc, nav_max_retries, nav_attempt, nav_result, nav_events

\* BrowserManager: the fields playwright, browser (set or unset) and _contexts,
\* how the last call on the manager ended, the number of start() calls, the
\* last lifecycle call and how it ended ("new", "started", "start_failed",
\* "stopped", "stop_failed"), and the position, context and page of the
\* managed_page block
VARIABLES bm_playwright, bm_browser, bm_contexts, bm_last, bm_starts, bm_life,
          mp_pc, mp_ctx, mp_page, mp_exit

\* the automation engine: the driver process, the browser, and every context
\* and page ever created ("none": not created, "open", "closed": close() has
\* been invoked on it or on its owner); page_ctx is the context of a page
VARIABLES engine_status, browser_status, ctx_status, page_status, page_ctx

\* extract_tender_details: position, the sub-extractions whose data the page
\* carries, the index of the next sub-extraction, the local result of each
\* one, the ones in which a page access failed, and what is returned
VARIABLES det_pc, det_page, det_idx, det_local, det_failed, det_result

\* the command line: --limit (0 for none), --scrape-details, --dry-run
VARIABLES in_limit, in_details, in_dry_run

\* main: position, the exception being handled, the local lists and counts,
\* the value main returns and the exit status of the process
VARIABLES main_pc, main_exc, main_tenders, original_count, main_ret,
          exit_status

\* MetadataTracker / RunMetadata: the counters, the error log (categories in
\* the order the entries were added), whether output_file is set, and the
\* number of finalize() calls
VARIABLES tr_pages, tr_parsed, tr_saved, tr_failures, tr_deduped, tr_errors,
          tr_output, tr_finalized

\* scrape_tenders: position, the exception on its way out, the locals
\* tender_list, idx, all_tenders, page and context, and whether start() and
\* stop() have been invoked
VARIABLES st_pc, st_exc, st_list, st_idx, all_tenders, st_page, st_ctx,
          st_started, st_stopped

\* open_tender_and_extract: position, new_page, details, and the document
\* tab of extract_documents_in_new_tab
VARIABLES ote_pc, ote_page, ote_details, ote_tab

\* what an observer of a run sees, in order: each failure that occurred
\* (with its category), each request of a detail page and each rate-limit
\* sleep (with the index of the tender)
VARIABLES st_events

\* one call of a function that is checked on its own: position, arguments
\* and return value
VARIABLES call_pc, call_args, call_ret

cleanVars == <<cad_pc, cad_tenders, cad_cleaned, cad_unique>>
gotoVars == <<nav_pc, nav_max_retries, nav_attempt, nav_result, nav_events>>

bmVars == <<bm_playwright, bm_browser, bm_contexts, bm_last, bm_starts,
           bm_life>>
mpVars == <<mp_pc, mp_ctx, mp_page, mp_exit>>
engineVars == <<engine_status, browser_status, ctx_status, page_status, page_ctx>>

detVars == <<det_pc, det_page, det_idx, det_local, det_failed, det_result>>

inVars == <<in_limit, in_details, in_dry_run>>
mainVars == <<main_pc, main_exc, main_tenders, original_count, main_ret,
             exit_status>>
trVars == <<tr_pages, tr_parsed, tr_saved, tr_failures, tr_deduped, tr_errors,
           tr_output, tr_finalized>>
stVars == <<st_pc, st_exc, st_list, st_idx, all_tenders, st_page, st_ctx,
           st_started, st_stopped>>
oteVars == <<ote_pc, ote_page, ote_details, ote_tab>>
obsVars == <<st_events>>
runVars == <<inVars, mainVars, trVars, stVars, oteVars, obsVars>>
callVars == <<call_pc, call_args, call_ret>>

vars == <<cleanVars, gotoVars, bmVars, mpVars, engineVars, detVars, runVars,
         callVars>>

\* the state outside each component
exceptClean == <<gotoVars, bmVars, mpVars, engineVars, detVars, runVars,
                callVars>>
exceptGoto == <<cleanVars, bmVars, mpVars, engineVars, detVars, runVars,
               callVars>>
exceptBrowser == <<cleanVars, gotoVars, detVars, runVars, callVars>>
exceptDetails == <<cleanVars, gotoVars, bmVars, mpVars, engineVars, runVars,
                  callVars>>
exceptRunLog == <<cleanVars, gotoVars, detVars, mpVars, callVars>>
exceptCall == <<cleanVars, gotoVars, bmVars, mpVars, engineVars, detVars,
               runVars>>
exceptRun == <<exceptRunLog, obsVars>>

\* --------------------------------------------------------------- utilities
Min(S) == CHOOSE x \in S : \A y \in S : x <= y

Range(s) == {s[i] : i \in 1..Len(s)}

SeqsUpTo(S, n) == UNION {[1..k -> S] : k \in 0..n}

\* ============================================================ cleaner.py
WordChars == {"a", "b"}
AllowedPunct == {".", ",", ";", ":", "(", ")", "-", "/", "&"}
Whitespace == {" "}

\* index of the ">" that ends a tag opened at position i, 0 when there is none
TagEnd(s, i) ==
    LET js == {j \in (i + 1)..Len(s) : s[j] = ">"}
    IN  IF js = {} THEN 0
        ELSE IF Min(js) >= i + 2 THEN Min(js) ELSE 0

RECURSIVE StripTagsFrom(_, _)
StripTagsFrom(s, i) ==
    IF i > Len(s) THEN <<>>
    ELSE IF s[i] = "<" /\ TagEnd(s, i) # 0
         THEN StripTagsFrom(s, TagEnd(s, i) + 1)
         ELSE <<s[i]>> \o StripTagsFrom(s, i + 1)

\* re.sub(r'<[^>]+>', '', text)
StripTags(s) == StripTagsFrom(s, 1)

RECURSIVE LStrip(_)
LStrip(s) ==
    IF s # <<>> /\ Head(s) \in Whitespace THEN LStrip(Tail(s)) ELSE s

RECURSIVE RStrip(_)
RStrip(s) ==
    IF s # <<>> /\ s[Len(s)] \in Whitespace
    THEN RStrip(SubSeq(s, 1, Len(s) - 1)) ELSE s

\* str.strip()
Strip(s) == LStrip(RStrip(s))

RECURSIVE CollapseFrom(_, _)
CollapseFrom(s, i) ==
    IF i > Len(s) THEN <<>>
    ELSE IF s[i] \in Whitespace /\ i < Len(s) /\ s[i + 1] \in Whitespace
         THEN CollapseFrom(s, i + 1)
         ELSE <<s[i]>> \o CollapseFrom(s, i + 1)

\* ' '.join(text.split())
JoinSplit(s) == CollapseFrom(Strip(s), 1)

IsKept(c) == c \in WordChars \cup Whitespace \cup AllowedPunct

\* re.sub(r'[^\w\s.,;:()\-/&]', '', text)
RestrictPunct(s) == SelectSeq(s, IsKept)

clean_text(text) == Strip(RestrictPunct(JoinSplit(StripTags(text))))

TenderTypes == {"Goods", "Works", "Services", "Unknown"}

validate_tender_type(tender_type) ==
    IF tender_type \in {"Goods", "Works", "Services"} THEN tender_type
    ELSE "Unknown"

\* a record carries the key, one cleaned text field and the type
clean_tender(tender) ==
    [tender EXCEPT
        !.title = IF tender.title # <<>> THEN clean_text(tender.title)
                  ELSE tender.title,
        !.tender_type = validate_tender_type(tender.tender_type)]

RECURSIVE clean_batch(_)
clean_batch(tenders) ==
    IF tenders = <<>> THEN <<>>
    ELSE <<clean_tender(Head(tenders))>> \o clean_batch(Tail(tenders))

DedupInit == [seen_ids |-> {}, unique_tenders |-> <<>>, duplicate_count |-> 0]

\* variant: a later record with a seen id replaces the kept one
DedupStepKeepsLast(acc, tender) ==
    IF tender.tender_id \notin acc.seen_ids
    THEN [seen_ids |-> acc.seen_ids \cup {tender.tender_id},
          unique_tenders |-> Append(acc.unique_tenders, tender),
          duplicate_count |-> acc.duplicate_count]
    ELSE [seen_ids |-> acc.seen_ids,
          unique_tenders |->
              SelectSeq(acc.unique_tenders,
                        LAMBDA u : u.tender_id # tender.tender_id)
              \o <<tender>>,
          duplicate_count |-> acc.duplicate_count + 1]

\* one turn of the loop of deduplicate_tenders
DedupStep(acc, tender) ==
    IF tender.tender_id \notin acc.seen_ids
    THEN [seen_ids |-> acc.seen_ids \cup {tender.tender_id},
          unique_tenders |-> Append(acc.unique_tenders, tender),
          duplicate_count |-> acc.duplicate_count]
    ELSE [seen_ids |-> acc.seen_ids,
          unique_tenders |-> acc.unique_tenders,
          duplicate_count |-> acc.duplicate_count + 1]

RECURSIVE DedupFold(_, _)
DedupFold(acc, tenders) ==
    IF tenders = <<>> THEN acc
    ELSE DedupFold(DedupStep(acc, Head(tenders)), Tail(tenders))

deduplicate_tenders(tenders) == DedupFold(DedupInit, tenders).unique_tenders

clean_and_deduplicate(tenders) == deduplicate_tenders(clean_batch(tenders))

\* ============================================== driver.py: PageNavigator
MaxRetriesBound == 3

\* what one call of page.goto can do: a response that is ok, a response that
\* is not ok, no response (None), or an error of the automation library
LoadOutcomes == {"ok", "not_ok", "no_response", "raises"}

NoSleep == -1

RECURSIVE Pow2(_)
Pow2(n) == IF n = 0 THEN 1 ELSE 2 * Pow2(n - 1)

\* variant: any response counts as success
ResponseOkAnyResponse(outcome) == outcome \in {"ok", "not_ok"}

\* driver.py:150  `response and response.ok`
ResponseOk(outcome) == outcome = "ok"

\* the body of the retry loop for one attempt: what it returns (or that the
\* loop continues) and the backoff it sleeps, if any
GotoStep(attempt, outcome, max_retries) ==
    IF outcome = "raises"
    THEN IF attempt < max_retries - 1
         THEN [ret |-> "continue", sleep |-> Pow2(attempt)]
         ELSE [ret |-> "False", sleep |-> NoSleep]
    ELSE IF ResponseOk(outcome)
         THEN [ret |-> "True", sleep |-> NoSleep]
         ELSE [ret |-> "continue", sleep |-> NoSleep]

GotoIdle ==
    /\ nav_pc = "idle"
    /\ nav_max_retries = 0
    /\ nav_attempt = 0
    /\ nav_result = "none"
    /\ nav_events = <<>>

GotoInit ==
    /\ nav_pc = "loop"
    /\ nav_max_retries \in 0..MaxRetriesBound
    /\ nav_attempt = 0
    /\ nav_result = "none"
    /\ nav_events = <<>>

AttemptEvent(k, outcome) == [kind |-> "attempt", k |-> k, outcome |-> outcome]
SleepEvent(k, secs) == [kind |-> "sleep", k |-> k, secs |-> secs]

\* driver.py:140-166, one turn of `for attempt in range(max_retries)`
GotoAttempt ==
    /\ nav_pc = "loop"
    /\ nav_attempt < nav_max_retries
    /\ \E outcome \in LoadOutcomes :
          LET r == GotoStep(nav_attempt, outcome, nav_max_retries)
              ev == <<AttemptEvent(nav_attempt, outcome)>> \o
                    (IF r.sleep # NoSleep
                     THEN <<SleepEvent(nav_attempt, r.sleep)>> ELSE <<>>)
          IN  /\ nav_events' = nav_events \o ev
              /\ IF r.ret = "continue"
                 THEN /\ nav_attempt' = nav_attempt + 1
                      /\ UNCHANGED <<nav_pc, nav_result>>
                 ELSE /\ nav_pc' = "returned"
                      /\ nav_result' = r.ret
                      /\ UNCHANGED nav_attempt
    /\ UNCHANGED <<nav_max_retries, exceptGoto>>

\* driver.py:168, the loop ran out
GotoLoopEnd ==
    /\ nav_pc = "loop"
    /\ nav_attempt >= nav_max_retries
    /\ nav_pc' = "returned"
    /\ nav_result' = "False"
    /\ UNCHANGED <<nav_max_retries, nav_attempt, nav_events, exceptGoto>>

GotoNext == GotoAttempt \/ GotoLoopEnd

\* ============================================= driver.py: BrowserManager
CtxIds == 1..MaxContexts
\* a run opens the listing page and, per tender, a detail page and a
\* document tab
PageIds == 1..(1 + 2 * MaxList)
NoId == 0

FreshCtx == Min({c \in CtxIds : ctx_status[c] = "none"})
FreshPage == Min({p \in PageIds : page_status[p] = "none"})
CanMakeCtx == \E c \in CtxIds : ctx_status[c] = "none"
CanMakePage ==
    Cardinality({p \in PageIds : page_status[p] # "none"}) < MaxApiPages

\* list.remove(x): drops the first occurrence
RECURSIVE RemoveFirst(_, _)
RemoveFirst(s, x) ==
    IF s = <<>> THEN <<>>
    ELSE IF Head(s) = x THEN Tail(s)
         ELSE <<Head(s)>> \o RemoveFirst(Tail(s), x)

\* closing a set of contexts closes the pages that live in them
CtxStatusAfterClose(C) ==
    [c \in CtxIds |-> IF c \in C /\ ctx_status[c] = "open" THEN "closed"
                      ELSE ctx_status[c]]
PageStatusAfterClose(C, P) ==
    [p \in PageIds |->
        IF page_status[p] = "open" /\ (p \in P \/ page_ctx[p] \in C)
        THEN "closed" ELSE page_status[p]]

BrowserInit ==
    /\ bm_playwright = "unset"
    /\ bm_browser = "unset"
    /\ bm_contexts = <<>>
    /\ bm_last = "none"
    /\ bm_starts = 0
    /\ bm_life = "new"
    /\ mp_pc = "idle"
    /\ mp_ctx = NoId
    /\ mp_page = NoId
    /\ mp_exit = "none"
    /\ engine_status = "none"
    /\ browser_status = "none"
    /\ ctx_status = [c \in CtxIds |-> "none"]
    /\ page_status = [p \in PageIds |-> "none"]
    /\ page_ctx = [p \in PageIds |-> NoId]

StartOutcomes == {"ok", "playwright_raises", "launch_raises"}

\* driver.py:27-44  start()
StartBody(outcome) ==
    /\ bm_starts' = bm_starts + 1
    /\ bm_life' = IF outcome = "ok" THEN "started" ELSE "start_failed"
    /\ CASE outcome = "playwright_raises" ->
              /\ bm_last' = "LibraryError"
              /\ UNCHANGED <<bm_playwright, bm_browser, engine_status,
                             browser_status>>
         [] outcome = "launch_raises" ->
              /\ bm_playwright' = "set"
              /\ engine_status' = "running"
              /\ bm_last' = "LibraryError"
              /\ UNCHANGED <<bm_browser, browser_status>>
         [] outcome = "ok" ->
              /\ bm_playwright' = "set"
              /\ engine_status' = "running"
              /\ bm_browser' = "set"
              /\ browser_status' = "open"
              /\ bm_last' = "ok"
    /\ UNCHANGED <<bm_contexts, ctx_status, page_status, page_ctx>>

\* driver.py:57-63  the part of stop() after the pool is cleared
StopTail(browserCloseRaises, playwrightStopRaises) ==
    IF bm_browser = "set" /\ browserCloseRaises
    THEN /\ browser_status' = "closed"
         /\ bm_last' = "LibraryError"
         /\ UNCHANGED <<bm_browser, bm_playwright, engine_status>>
    ELSE /\ bm_browser' = "unset"
         /\ browser_status' = IF bm_browser = "set" THEN "closed"
                              ELSE browser_status
         /\ IF bm_playwright = "set" /\ playwrightStopRaises
            THEN /\ engine_status' = "stopped"
                 /\ bm_last' = "LibraryError"
                 /\ UNCHANGED bm_playwright
            ELSE /\ bm_playwright' = "unset"
                 /\ engine_status' = IF bm_playwright = "set" THEN "stopped"
                                     ELSE engine_status
                 /\ bm_last' = "ok"

\* driver.py:46-65  stop(); an error of context.close() is caught and logged
StopBody(browserCloseRaises, playwrightStopRaises) ==
    /\ ctx_status' = CtxStatusAfterClose(Range(bm_contexts))
    /\ page_status' = PageStatusAfterClose(Range(bm_contexts), {})
    /\ bm_contexts' = <<>>
    /\ StopTail(browserCloseRaises, playwrightStopRaises)
    /\ bm_life' = IF bm_last' = "ok" THEN "stopped" ELSE "stop_failed"
    /\ UNCHANGED <<bm_starts, page_ctx>>

\* variant: the guard is missing
CreateContextGuardMissing == TRUE

\* driver.py:74  `if not self.browser: raise RuntimeError(...)`
CreateContextGuard == bm_browser = "set"

\* driver.py:73-90  create_context(): how the call ends, and the pool and
\* the contexts after it; new_context() on a browser on which close() has
\* been invoked fails with an error of the library
CreateContextResult ==
    IF ~CreateContextGuard
    THEN [last |-> "NotStarted", ctx |-> NoId,
          contexts |-> bm_contexts, status |-> ctx_status]
    ELSE IF browser_status # "open"
         THEN [last |-> "LibraryError", ctx |-> NoId,
               contexts |-> bm_contexts, status |-> ctx_status]
         ELSE [last |-> "ok", ctx |-> FreshCtx,
               contexts |-> Append(bm_contexts, FreshCtx),
               status |-> [ctx_status EXCEPT ![FreshCtx] = "open"]]

CreateContextBody ==
    /\ bm_last' = CreateContextResult.last
    /\ bm_contexts' = CreateContextResult.contexts
    /\ ctx_status' = CreateContextResult.status

\* driver.py:67-71  get_context()
GetContextBody ==
    IF bm_contexts = <<>>
    THEN /\ bm_last' = CreateContextResult.last
         /\ ctx_status' = CreateContextResult.status
         /\ bm_contexts' =
               IF CreateContextResult.last = "ok"
               THEN Append(CreateContextResult.contexts,
                           CreateContextResult.ctx)
               ELSE CreateContextResult.contexts
    ELSE /\ bm_last' = "ok"
         /\ UNCHANGED <<bm_contexts, ctx_status>>

\* context.new_page() on context c: fails when the context is not open
NewPageInResult(c, cstatus) ==
    IF cstatus[c] # "open"
    THEN [last |-> "LibraryError", page |-> NoId,
          pstatus |-> page_status, pctx |-> page_ctx]
    ELSE [last |-> "ok", page |-> FreshPage,
          pstatus |-> [page_status EXCEPT ![FreshPage] = "open"],
          pctx |-> [page_ctx EXCEPT ![FreshPage] = c]]

\* driver.py:92-105  new_page(context); context = NoId stands for None
NewPageBody(context) ==
    IF context = NoId
    THEN /\ bm_contexts' = CreateContextResult.contexts
         /\ ctx_status' = CreateContextResult.status
         /\ IF CreateContextResult.last # "ok"
            THEN /\ bm_last' = CreateContextResult.last
                 /\ UNCHANGED <<page_status, page_ctx>>
            ELSE LET r == NewPageInResult(CreateContextResult.ctx,
                                          CreateContextResult.status)
                 IN  /\ bm_last' = r.last
                     /\ page_status' = r.pstatus
                     /\ page_ctx' = r.pctx
    ELSE LET r == NewPageInResult(context, ctx_status)
         IN  /\ bm_last' = r.last
             /\ page_status' = r.pstatus
             /\ page_ctx' = r.pctx
             /\ UNCHANGED <<bm_contexts, ctx_status>>

\* driver.py:109-113  managed_page() up to the yield
ManagedPageEnterBody ==
    /\ bm_contexts' = CreateContextResult.contexts
    /\ ctx_status' = CreateContextResult.status
    /\ mp_exit' = "none"
    /\ IF CreateContextResult.last # "ok"
       THEN /\ bm_last' = CreateContextResult.last
            /\ mp_pc' = "idle"
            /\ mp_ctx' = NoId
            /\ mp_page' = NoId
            /\ UNCHANGED <<page_status, page_ctx>>
       ELSE LET r == NewPageInResult(CreateContextResult.ctx,
                                     CreateContextResult.status)
            IN  /\ bm_last' = r.last
                /\ page_status' = r.pstatus
                /\ page_ctx' = r.pctx
                /\ mp_ctx' = CreateContextResult.ctx
                /\ mp_page' = r.page
                /\ mp_pc' = IF r.last = "ok" THEN "body" ELSE "idle"

BlockExits == {"return", "error", "cancelled"}

\* driver.py:114-118  the finally clause of managed_page()
ManagedPageFinally(pageCloseRaises, ctxCloseRaises) ==
    IF pageCloseRaises
    THEN /\ page_status' = PageStatusAfterClose({}, {mp_page})
         /\ bm_last' = "LibraryError"
         /\ UNCHANGED <<ctx_status, bm_contexts>>
    ELSE /\ page_status' = PageStatusAfterClose({mp_ctx}, {mp_page})
         /\ ctx_status' = CtxStatusAfterClose({mp_ctx})
         /\ IF ctxCloseRaises
            THEN /\ bm_last' = "LibraryError"
                 /\ UNCHANGED bm_contexts
            ELSE /\ bm_last' = "ok"
                 /\ bm_contexts' = RemoveFirst(bm_contexts, mp_ctx)

\* -------------------------------------------- SpecBrowser: calls in any order
BMStart ==
    /\ bm_starts < MaxStarts
    /\ \E outcome \in StartOutcomes : StartBody(outcome)
    /\ UNCHANGED <<mpVars, exceptBrowser>>

BMStop ==
    /\ \E b, w \in BOOLEAN : StopBody(b, w)
    /\ UNCHANGED <<mpVars, exceptBrowser>>

BMCreateContext ==
    /\ CanMakeCtx
    /\ CreateContextBody
    /\ UNCHANGED <<bm_playwright, bm_browser, bm_starts, bm_life, engine_status,
                   browser_status, page_status, page_ctx, mpVars,
                   exceptBrowser>>

BMGetContext ==
    /\ CanMakeCtx
    /\ GetContextBody
    /\ UNCHANGED <<bm_playwright, bm_browser, bm_starts, bm_life, engine_status,
                   browser_status, page_status, page_ctx, mpVars,
                   exceptBrowser>>

BMNewPage ==
    /\ CanMakeCtx
    /\ CanMakePage
    /\ \E context \in Range(bm_contexts) \cup {NoId} : NewPageBody(context)
    /\ UNCHANGED <<bm_playwright, bm_browser, bm_starts, bm_life, engine_status,
                   browser_status, mpVars, exceptBrowser>>

BMManagedPageEnter ==
    /\ mp_pc \in {"idle", "exited"}
    /\ CanMakeCtx
    /\ CanMakePage
    /\ ManagedPageEnterBody
    /\ UNCHANGED <<bm_playwright, bm_browser, bm_starts, bm_life, engine_status,
                   browser_status, exceptBrowser>>

\* the block under `async with managed_page()` ends, in any of the three ways
BMManagedPageExit ==
    /\ mp_pc = "body"
    /\ \E kind \in BlockExits, pr, cr \in BOOLEAN :
          /\ ManagedPageFinally(pr, cr)
          /\ mp_exit' = kind
    /\ mp_pc' = "exited"
    /\ UNCHANGED <<mp_ctx, mp_page, page_ctx, bm_playwright, bm_browser,
                   bm_starts, bm_life, engine_status, browser_status, exceptBrowser>>

BrowserNext ==
    \/ BMStart
    \/ BMStop
    \/ BMCreateContext
    \/ BMGetContext
    \/ BMNewPage
    \/ BMManagedPageEnter
    \/ BMManagedPageExit

\* ================================= extractor.py: extract_tender_details
\* the sub-extractions in the order of extractor.py:100-127
SubExtractions ==
    <<"procurement", "calendar", "amount", "other", "stages", "eligibility",
      "specifications", "terms", "contact_info", "tender_fee", "emd_amount",
      "script_value", "tender_type", "tender_status">>

SubNames == Range(SubExtractions)

\* sub-extractions that always produce a value (a default when nothing hits)
AlwaysValued == {"tender_type", "tender_status"}

\* sub-extractions with a page access or a conversion inside a try block of
\* their own: _extract_table_field (671-714), _extract_tender_stages
\* (844-909), _extract_eligibility (541-548), _extract_specifications
\* (554-577), _extract_terms (590-597), the address probe of
\* _extract_contact_info (633-641), float() in _extract_script_value (649-652)
HasGuardedAccess ==
    {"procurement", "calendar", "amount", "other", "stages", "eligibility",
     "specifications", "terms", "contact_info", "tender_fee", "script_value"}

\* sub-extractions that call page.content() outside any try block of their
\* own: the IFB fallback of _extract_procurement_summary_fields (759-761,
\* taken when the table scan found no IFB number), _extract_contact_info
\* (603), _extract_script_value (646) also behind _extract_tender_fee (656),
\* _extract_emd_amount (659), _extract_status (518)
HasUnguardedAccess(name, page) ==
    \/ name \in {"contact_info", "tender_fee", "emd_amount", "script_value",
                 "tender_status"}
    \/ name = "procurement" /\ "procurement" \notin page

\* the ways one sub-extraction can go on a page
SubOutcomes(name, page) ==
    {"ok"} \cup (IF name \in HasGuardedAccess THEN {"fails_guarded"} ELSE {})
           \cup (IF HasUnguardedAccess(name, page) THEN {"fails_unguarded"}
                 ELSE {})

\* what the sub-extraction hands back to extract_tender_details: a value,
\* nothing (None, or an empty mapping or list), or the error it lets through
SubResult(name, page, outcome) ==
    CASE outcome = "fails_unguarded" -> "raises"
      [] outcome = "fails_guarded" -> "absent"
      [] outcome = "ok" ->
            IF name \in page \/ name \in AlwaysValued THEN "value"
            ELSE "absent"

PageSamples == {SubNames, {}, {"procurement", "script_value", "tender_status"}}

DetailsIdle ==
    /\ det_pc = "idle"
    /\ det_page = {}
    /\ det_idx = 1
    /\ det_local = [n \in SubNames |-> "pending"]
    /\ det_failed = {}
    /\ det_result = "none"

DetailsInit ==
    /\ det_pc = "load"
    /\ det_page \in PageSamples
    /\ det_idx = 1
    /\ det_local = [n \in SubNames |-> "pending"]
    /\ det_failed = {}
    /\ det_result = "none"

\* extractor.py:92-97  wait_for_load_state and page.content(); an error goes
\* to the except clause at 208-210
DetLoad ==
    /\ det_pc = "load"
    /\ \E raises \in BOOLEAN :
          IF raises
          THEN /\ det_pc' = "returned"
               /\ det_result' = "nothing"
               /\ det_failed' = {"load"}
          ELSE /\ det_pc' = "sub"
               /\ UNCHANGED <<det_result, det_failed>>
    /\ UNCHANGED <<det_page, det_idx, det_local, exceptDetails>>

\* extractor.py:100-127  one sub-extraction; an error it lets through goes
\* to the except clause at 208-210
DetSubExtraction ==
    /\ det_pc = "sub"
    /\ det_idx <= Len(SubExtractions)
    /\ LET name == SubExtractions[det_idx]
       IN  \E outcome \in SubOutcomes(name, det_page) :
              LET r == SubResult(name, det_page, outcome)
              IN  /\ det_failed' = IF outcome = "ok" THEN det_failed
                                   ELSE det_failed \cup {name}
                  /\ IF r = "raises"
                     THEN /\ det_pc' = "returned"
                          /\ det_result' = "nothing"
                          /\ UNCHANGED <<det_idx, det_local>>
                     ELSE /\ det_local' = [det_local EXCEPT ![name] = r]
                          /\ det_idx' = det_idx + 1
                          /\ UNCHANGED <<det_pc, det_result>>
    /\ UNCHANGED <<det_page, exceptDetails>>

\* extractor.py:138-206  the mapping is built from the local results
DetReturnRecord ==
    /\ det_pc = "sub"
    /\ det_idx > Len(SubExtractions)
    /\ det_pc' = "returned"
    /\ det_result' = "record"
    /\ UNCHANGED <<det_page, det_idx, det_local, det_failed, exceptDetails>>

DetailsNext == DetLoad \/ DetSubExtraction \/ DetReturnRecord

\* ---------------------------------------------- SpecClean: state and steps
TenderIds == {"T1", "T2"}
TitleSamples == {<<"a">>, <<"a", " ", "!", " ", "b">>, <<"<", "b", ">", "a">>}
RecordTypes == {"Works", "Unknown"}
TenderRecords ==
    [tender_id : TenderIds, title : TitleSamples, tender_type : RecordTypes]

CleanIdle ==
    /\ cad_pc = "idle"
    /\ cad_tenders = <<>>
    /\ cad_cleaned = <<>>
    /\ cad_unique = <<>>

CleanInit ==
    /\ cad_pc = "clean"
    /\ cad_tenders \in SeqsUpTo(TenderRecords, MaxBatch)
    /\ cad_cleaned = <<>>
    /\ cad_unique = <<>>

\* cleaner.py:148
CadCleanBatch ==
    /\ cad_pc = "clean"
    /\ cad_cleaned' = clean_batch(cad_tenders)
    /\ cad_pc' = "dedup"
    /\ UNCHANGED <<cad_tenders, cad_unique, exceptClean>>

\* cleaner.py:150-157
CadDeduplicate ==
    /\ cad_pc = "dedup"
    /\ cad_unique' = deduplicate_tenders(cad_cleaned)
    /\ cad_pc' = "done"
    /\ UNCHANGED <<cad_tenders, cad_cleaned, exceptClean>>

CleanNext == CadCleanBatch \/ CadDeduplicate

\* ================================================ scrape.py: scrape_tenders
DefaultMaxRetries == 3
NoCount == -1
NoCode == -1

RunTitles == {<<"a">>, <<"a", " ", "!", " ", "b">>}

RECURSIVE GotoRun(_, _, _)
GotoRun(outs, attempt, max_retries) ==
    IF attempt >= max_retries THEN "False"
    ELSE LET r == GotoStep(attempt, outs[attempt + 1], max_retries)
         IN  IF r.ret = "continue" THEN GotoRun(outs, attempt + 1, max_retries)
             ELSE r.ret

\* the value of goto() when the loads go as in outs
goto(outs, max_retries) == GotoRun(outs, 0, max_retries)

FailureEvent(category) == [kind |-> "failed", cat |-> category, idx |-> 0]
RequestEvent(i) == [kind |-> "request", cat |-> "", idx |-> i]
SleepRateEvent(i) == [kind |-> "sleep", cat |-> "", idx |-> i]

\* variant: only the newest entry is kept
AddErrorKeepsNewest(category) ==
    /\ tr_errors' = <<category>>
    /\ tr_failures' = tr_failures + 1

\* RunMetadata.add_error, models.py:241-248
AddError(category) ==
    /\ tr_errors' = Append(tr_errors, category)
    /\ tr_failures' = tr_failures + 1

RunIdle ==
    /\ in_limit = 0
    /\ in_details = FALSE
    /\ in_dry_run = FALSE
    /\ main_pc = "idle"
    /\ main_exc = "none"
    /\ main_tenders = <<>>
    /\ original_count = NoCount
    /\ main_ret = NoCode
    /\ exit_status = NoCode
    /\ tr_pages = 0
    /\ tr_parsed = 0
    /\ tr_saved = 0
    /\ tr_failures = 0
    /\ tr_deduped = 0
    /\ tr_errors = <<>>
    /\ tr_output = FALSE
    /\ tr_finalized = 0
    /\ st_pc = "idle"
    /\ st_exc = "none"
    /\ st_list = <<>>
    /\ st_idx = 0
    /\ all_tenders = <<>>
    /\ st_page = NoId
    /\ st_ctx = NoId
    /\ st_started = FALSE
    /\ st_stopped = FALSE
    /\ ote_pc = "idle"
    /\ ote_page = NoId
    /\ ote_details = "none"
    /\ ote_tab = NoId
    /\ st_events = <<>>

\* main up to scrape.py:185, with the tracker of scrape.py:182
RunInit ==
    /\ in_limit \in 0..1
    /\ in_details \in BOOLEAN
    /\ in_dry_run \in BOOLEAN
    /\ main_pc = "scrape"
    /\ main_exc = "none"
    /\ main_tenders = <<>>
    /\ original_count = NoCount
    /\ main_ret = NoCode
    /\ exit_status = NoCode
    /\ tr_pages = 0
    /\ tr_parsed = 0
    /\ tr_saved = 0
    /\ tr_failures = 0
    /\ tr_deduped = 0
    /\ tr_errors = <<>>
    /\ tr_output = FALSE
    /\ tr_finalized = 0
    /\ st_pc = "start"
    /\ st_exc = "none"
    /\ st_list = <<>>
    /\ st_idx = 0
    /\ all_tenders = <<>>
    /\ st_page = NoId
    /\ st_ctx = NoId
    /\ st_started = FALSE
    /\ st_stopped = FALSE
    /\ ote_pc = "idle"
    /\ ote_page = NoId
    /\ ote_details = "none"
    /\ ote_tab = NoId
    /\ st_events = <<>>

\* scrape.py:253  await browser_manager.start(); an error goes to the outer
\* finally clause
StStart ==
    /\ st_pc = "start"
    /\ \E outcome \in StartOutcomes : StartBody(outcome)
    /\ st_started' = TRUE
    /\ IF bm_last' = "ok"
       THEN st_pc' = "create_context" /\ UNCHANGED st_exc
       ELSE st_pc' = "stop" /\ st_exc' = "Exception"
    /\ UNCHANGED <<st_list, st_idx, all_tenders, st_page, st_ctx, st_stopped,
                   inVars, mainVars, trVars, oteVars, exceptRun>>

\* scrape.py:257-258  create_context() and context.new_page(); an error
\* goes to the inner finally clause with page unset
StCreateContext ==
    /\ st_pc = "create_context"
    /\ CreateContextBody
    /\ st_ctx' = CreateContextResult.ctx
    /\ \E newPageRaises \in BOOLEAN :
          IF CreateContextResult.last # "ok" \/ newPageRaises
          THEN /\ st_exc' = "Exception"
               /\ st_pc' = "inner_finally"
               /\ UNCHANGED <<st_page, page_status, page_ctx>>
          ELSE /\ st_page' = FreshPage
               /\ page_status' = [page_status EXCEPT ![FreshPage] = "open"]
               /\ page_ctx' = [page_ctx EXCEPT ![FreshPage] =
                                   CreateContextResult.ctx]
               /\ st_pc' = "goto"
               /\ UNCHANGED st_exc
    /\ UNCHANGED <<bm_playwright, bm_browser, bm_starts, bm_life,
                   engine_status, browser_status, st_list, st_idx,
                   all_tenders, st_started, st_stopped, inVars, mainVars,
                   trVars, oteVars, exceptRun>>

\* scrape.py:261-267  the start page; scrape.py:264 raises when goto fails
StGotoHome ==
    /\ st_pc = "goto"
    /\ \E outs \in [1..DefaultMaxRetries -> LoadOutcomes] :
          IF goto(outs, DefaultMaxRetries) = "True"
          THEN /\ tr_pages' = tr_pages + 1
               /\ st_pc' = "search"
               /\ UNCHANGED <<st_exc, st_events>>
          ELSE /\ st_exc' = "Exception"
               /\ st_pc' = "inner_finally"
               /\ st_events' = Append(st_events, FailureEvent("navigation"))
               /\ UNCHANGED tr_pages
    /\ UNCHANGED <<st_list, st_idx, all_tenders, st_page, st_ctx, st_started,
                   st_stopped, tr_parsed, tr_saved, tr_failures, tr_deduped,
                   tr_errors, tr_output, tr_finalized, inVars, mainVars,
                   oteVars, bmVars, engineVars, exceptRunLog>>

\* scrape.py:269-290  without filters nothing is searched; with filters the
\* search mode returns a flag, which is logged and otherwise ignored
SearchResults == {"no_filters", "True", "False"}

StSearch ==
    /\ st_pc = "search"
    /\ \E result \in SearchResults :
          st_events' = IF result = "False"
                       THEN Append(st_events, FailureEvent("search"))
                       ELSE st_events
    /\ st_pc' = "extract_list"
    /\ UNCHANGED <<st_exc, st_list, st_idx, all_tenders, st_page, st_ctx,
                   st_started, st_stopped, inVars, mainVars, trVars, oteVars,
                   bmVars, engineVars, exceptRunLog>>

\* ==================================== extractor.py: extract_tender_list
\* a rendered row: its number of td cells, the tender id its detail cell
\* carries (NoTenderId when none can be parsed), and whether reading one of
\* its elements raises
NoTenderId == "none"
CellCounts == {2, 3}
MinCells == 3

Rows == [cells : CellCounts, tender_id : TenderIds \cup {NoTenderId},
         raises : BOOLEAN]

\* variant: the cell count is not tested
RowCellsEnoughAlways(row) == TRUE

\* extractor.py:50  `if len(cells) < 3: return None`
RowCellsEnough(row) == row.cells >= MinCells

\* extractor.py:46-87  _extract_row_data: the entry of the row, or nothing;
\* every error is caught at 85-87
NoEntry == "nothing"
extract_row_data(row) ==
    IF row.raises THEN NoEntry
    ELSE IF ~RowCellsEnough(row) THEN NoEntry
    ELSE IF row.tender_id = NoTenderId THEN NoEntry
    ELSE row.tender_id

\* extractor.py:31-37  the loop over the rows
RECURSIVE ExtractRows(_)
ExtractRows(rows) ==
    IF rows = <<>> THEN <<>>
    ELSE LET tender_data == extract_row_data(Head(rows))
         IN  (IF tender_data # NoEntry THEN <<tender_data>> ELSE <<>>)
                 \o ExtractRows(Tail(rows))

\* extractor.py:20-44  extract_tender_list: when the table does not show up
\* or the rows cannot be queried (26-28) the error is logged and the empty
\* list is returned
extract_tender_list(rows, tableFails) ==
    IF tableFails THEN <<>> ELSE ExtractRows(rows)

\* the failures inside extract_tender_list, as an observer counts them
RECURSIVE RowFailureEvents(_)
RowFailureEvents(rows) ==
    IF rows = <<>> THEN <<>>
    ELSE (IF Head(rows).raises THEN <<FailureEvent("row")>> ELSE <<>>)
             \o RowFailureEvents(Tail(rows))

ListFailureEvents(rows, tableFails) ==
    IF tableFails THEN <<FailureEvent("list")>> ELSE RowFailureEvents(rows)

\* the rows a run is checked on
RunRows ==
    {[cells |-> 3, tender_id |-> t, raises |-> FALSE] : t \in TenderIds}
        \cup {[cells |-> 3, tender_id |-> "T1", raises |-> TRUE]}

\* the entries extract_tender_list returned, as an observer sees them
ListedEvents(tender_list) ==
    [i \in 1..Len(tender_list) |->
        [kind |-> "listed", cat |-> tender_list[i], idx |-> i]]

\* variant: the last entries of the listing are kept
ApplyLimitKeepsLast(tender_list, limit) ==
    IF limit # 0 /\ Len(tender_list) > limit
    THEN SubSeq(tender_list, Len(tender_list) - limit + 1, Len(tender_list))
    ELSE tender_list

\* scrape.py:296-298
ApplyLimit(tender_list, limit) ==
    IF limit # 0 /\ Len(tender_list) > limit
    THEN SubSeq(tender_list, 1, limit) ELSE tender_list

\* scrape.py:292-303  extract_tender_list never raises: it returns the
\* entries it could read
StExtractList ==
    /\ st_pc = "extract_list"
    /\ \E rows \in SeqsUpTo(RunRows, MaxList), tableFails \in BOOLEAN :
          /\ st_list' = ApplyLimit(extract_tender_list(rows, tableFails),
                                   in_limit)
          /\ st_events' = st_events \o ListFailureEvents(rows, tableFails)
                             \o ListedEvents(extract_tender_list(rows,
                                                                 tableFails))
    /\ st_idx' = 1
    /\ st_pc' = IF in_details THEN "detail_loop" ELSE "basic_loop"
    /\ UNCHANGED <<st_exc, all_tenders, st_page, st_ctx, st_started,
                   st_stopped, inVars, mainVars, trVars, oteVars, bmVars,
                   engineVars, exceptRunLog>>

\* scrape.py:303-317  the head of one turn of the detail loop
StTenderBegin ==
    /\ st_pc = "detail_loop"
    /\ IF st_idx > Len(st_list) \/ page_status[st_page] # "open"
       THEN /\ st_pc' = "inner_finally"
            /\ UNCHANGED <<oteVars, st_events>>
       ELSE /\ st_pc' = "in_ote"
            /\ ote_pc' = "click"
            /\ ote_page' = NoId
            /\ ote_details' = "none"
            /\ ote_tab' = NoId
            /\ st_events' = Append(st_events, RequestEvent(st_idx))
    /\ UNCHANGED <<st_exc, st_list, st_idx, all_tenders, st_page, st_ctx,
                   st_started, st_stopped, inVars, mainVars, trVars, bmVars,
                   engineVars, exceptRunLog>>

\* ===================================== extractor.py: open_tender_and_extract
OpenPage(p, c) ==
    /\ page_status' = [page_status EXCEPT ![p] = "open"]
    /\ page_ctx' = [page_ctx EXCEPT ![p] = c]

\* extractor.py:217-222  the click that opens the detail page; an error
\* goes to the except clause at 243-245 with new_page unset.  The click also
\* fails when the listing page has gone (closed by the site or lost with
\* the browser), the case scrape.py:305-307 tests for with page.is_closed()
OteClick ==
    /\ st_pc = "in_ote" /\ ote_pc = "click"
    /\ \E outcome \in {"opens", "fails", "listing_page_closed"} :
          IF outcome = "opens"
          THEN /\ ote_page' = FreshPage
               /\ OpenPage(FreshPage, st_ctx)
               /\ ote_pc' = "wait_load"
               /\ UNCHANGED ote_details
          ELSE /\ ote_details' = "nothing"
               /\ ote_pc' = "finally"
               /\ page_status' =
                     IF outcome = "listing_page_closed"
                     THEN [page_status EXCEPT ![st_page] = "closed"]
                     ELSE page_status
               /\ UNCHANGED <<ote_page, page_ctx>>
    /\ UNCHANGED <<ote_tab, stVars, inVars, mainVars, trVars, bmVars,
                   engine_status, browser_status, ctx_status, exceptRun>>

\* extractor.py:223-230  waiting for the detail page; a timeout goes to the
\* except clause at 243-245
OteWaitLoad ==
    /\ st_pc = "in_ote" /\ ote_pc = "wait_load"
    /\ \E timeout \in BOOLEAN :
          IF timeout
          THEN ote_details' = "nothing" /\ ote_pc' = "finally"
          ELSE ote_pc' = "extract" /\ UNCHANGED ote_details
    /\ UNCHANGED <<ote_page, ote_tab, stVars, inVars, mainVars, trVars,
                   bmVars, engineVars, exceptRun>>

\* extractor.py:232-234  extract_tender_details gives the mapping or nothing
OteExtract ==
    /\ st_pc = "in_ote" /\ ote_pc = "extract"
    /\ \E details \in {"record", "nothing"} :
          /\ ote_details' = details
          /\ ote_pc' = IF details = "record" THEN "doc_link" ELSE "finally"
    /\ UNCHANGED <<ote_page, ote_tab, stVars, inVars, mainVars, trVars,
                   bmVars, engineVars, exceptRun>>

\* extractor.py:235-237 and 256-259  the document link, and the new tab of
\* extract_documents_in_new_tab; when context.new_page() raises the tab is
\* unset and the empty list is returned
OteDocLink ==
    /\ st_pc = "in_ote" /\ ote_pc = "doc_link"
    /\ \E outcome \in {"no_link", "tab_fails", "tab_opens"} :
          IF outcome = "tab_opens"
          THEN /\ ote_tab' = FreshPage
               /\ OpenPage(FreshPage, st_ctx)
               /\ ote_pc' = "docs_tab"
          ELSE /\ ote_pc' = "finally"
               /\ UNCHANGED <<ote_tab, page_status, page_ctx>>
    /\ UNCHANGED <<ote_page, ote_details, stVars, inVars, mainVars, trVars,
                   bmVars, engine_status, browser_status, ctx_status,
                   exceptRun>>

\* variant: the tab is closed only after its documents were read
TabClosedOnExitSuccessOnly(tab, loaded) == IF loaded THEN {tab} ELSE {}

\* extractor.py:268-270  the pages the finally clause of
\* extract_documents_in_new_tab closes
TabClosedOnExit(tab, loaded) == {tab}

\* extractor.py:259-270  the tab loads or fails to, the documents are read,
\* and the finally clause closes the tab; an error of close() reaches the
\* except clause of open_tender_and_extract (243-245)
OteDocsTab ==
    /\ st_pc = "in_ote" /\ ote_pc = "docs_tab"
    /\ \E loaded, closeRaises \in BOOLEAN :
          /\ page_status' =
                PageStatusAfterClose({}, TabClosedOnExit(ote_tab, loaded))
          /\ ote_details' = IF closeRaises /\ st_exc = "none" THEN "nothing"
                            ELSE ote_details
    /\ ote_pc' = "finally"
    /\ UNCHANGED <<ote_page, ote_tab, page_ctx, stVars, inVars, mainVars,
                   trVars, bmVars, engine_status, browser_status, ctx_status,
                   exceptRun>>

\* variant: the detail page is closed only on the success path
DetailClosedOnExitSuccessOnly(new_page, details) ==
    IF new_page # NoId /\ details = "record" THEN {new_page} ELSE {}

\* extractor.py:246-251  the pages the finally clause closes
DetailClosedOnExit(new_page, details) ==
    IF new_page # NoId THEN {new_page} ELSE {}

\* extractor.py:241-251  the finally clause (an error of close() is
\* swallowed) and the return; a cancellation goes on to the caller
OteFinally ==
    /\ st_pc = "in_ote" /\ ote_pc = "finally"
    /\ page_status' =
          PageStatusAfterClose({}, DetailClosedOnExit(ote_page, ote_details))
    /\ ote_pc' = "idle"
    /\ st_pc' = IF st_exc = "Cancelled" THEN "inner_finally"
                ELSE "tender_result"
    /\ UNCHANGED <<ote_page, ote_details, ote_tab, page_ctx, st_exc, st_list,
                   st_idx, all_tenders, st_page, st_ctx, st_started,
                   st_stopped, inVars, mainVars, trVars, bmVars,
                   engine_status, browser_status, ctx_status, exceptRun>>

\* ====================================== scrape.py: scrape_tenders, continued
\* scrape.py:319-326  what the detail loop does with the result
StTenderResult ==
    /\ st_pc = "tender_result"
    /\ IF ote_details = "record"
       THEN /\ \E title \in RunTitles, type \in RecordTypes :
                  all_tenders' = Append(all_tenders,
                      [tender_id |-> st_list[st_idx], title |-> title,
                       tender_type |-> type])
            /\ tr_parsed' = tr_parsed + 1
            /\ UNCHANGED <<tr_errors, tr_failures, st_events>>
       ELSE /\ AddError("DetailScraping")
            /\ st_events' = Append(st_events, FailureEvent("detail"))
            /\ UNCHANGED <<all_tenders, tr_parsed>>
    /\ IF st_idx < Len(st_list)
       THEN st_pc' = "rate_sleep" /\ UNCHANGED st_idx
       ELSE st_pc' = "detail_loop" /\ st_idx' = st_idx + 1
    /\ UNCHANGED <<st_exc, st_list, st_page, st_ctx, st_started, st_stopped,
                   tr_pages, tr_saved, tr_deduped, tr_output, tr_finalized,
                   inVars, mainVars, oteVars, bmVars, engineVars,
                   exceptRunLog>>

\* variant: the delay is taken only after a tender that gave a record
RateLimitDueAfterSuccessOnly(details) == details = "record"

\* scrape.py:328-329  `if idx < len(tender_list): await asyncio.sleep(...)`
\* stands after the if/else on details, so the delay follows either branch
RateLimitDue(details) == TRUE

\* scrape.py:328-329  the delay of settings.rate_limit seconds
StRateLimitSleep ==
    /\ st_pc = "rate_sleep"
    /\ st_events' = IF RateLimitDue(ote_details)
                     THEN Append(st_events, SleepRateEvent(st_idx))
                     ELSE st_events
    /\ st_idx' = st_idx + 1
    /\ st_pc' = "detail_loop"
    /\ UNCHANGED <<st_exc, st_list, all_tenders, st_page, st_ctx, st_started,
                   st_stopped, inVars, mainVars, trVars, oteVars, bmVars,
                   engineVars, exceptRunLog>>

\* scrape.py:339-361  one turn of the loop over the listing entries when
\* detail pages are not scraped; tender_type takes the default of the model
StBasicTender ==
    /\ st_pc = "basic_loop"
    /\ IF st_idx > Len(st_list)
       THEN /\ st_pc' = "inner_finally"
            /\ UNCHANGED <<all_tenders, tr_parsed, st_idx>>
       ELSE /\ \E title \in RunTitles :
                  all_tenders' = Append(all_tenders,
                      [tender_id |-> st_list[st_idx], title |-> title,
                       tender_type |-> "Unknown"])
            /\ tr_parsed' = tr_parsed + 1
            /\ st_idx' = st_idx + 1
            /\ UNCHANGED st_pc
    /\ UNCHANGED <<st_exc, st_list, st_page, st_ctx, st_started, st_stopped,
                   tr_pages, tr_saved, tr_failures, tr_deduped, tr_errors,
                   tr_output, tr_finalized, inVars, mainVars, oteVars, bmVars,
                   engineVars, exceptRun>>

\* a user interrupt while scrape_tenders waits: asyncio.run cancels the task,
\* the cancellation passes the `except Exception` clauses and runs the
\* finally clauses on its way out
StInterrupt ==
    /\ main_pc = "scrape"
    /\ st_exc = "none"
    /\ \/ /\ st_pc \in {"create_context", "goto", "search", "extract_list",
                       "rate_sleep"}
          /\ st_pc' = "inner_finally"
          /\ UNCHANGED ote_pc
       \/ /\ st_pc = "in_ote"
          /\ ote_pc \in {"click", "wait_load", "extract", "doc_link",
                         "docs_tab"}
          /\ ote_pc' = IF ote_pc = "docs_tab" THEN "docs_tab" ELSE "finally"
          /\ UNCHANGED st_pc
    /\ st_exc' = "Cancelled"
    /\ UNCHANGED <<ote_page, ote_details, ote_tab, st_list, st_idx,
                   all_tenders, st_page, st_ctx, st_started, st_stopped,
                   inVars, mainVars, trVars, bmVars, engineVars, exceptRun>>

\* scrape.py:365-369  the inner finally clause; an error of page.close()
\* skips context.close() and replaces the exception on its way out
StInnerFinally ==
    /\ st_pc = "inner_finally"
    /\ \E pageCloseRaises, ctxCloseRaises \in BOOLEAN :
          IF st_page # NoId /\ pageCloseRaises
          THEN /\ page_status' = PageStatusAfterClose({}, {st_page})
               /\ st_exc' = "Exception"
               /\ UNCHANGED ctx_status
          ELSE /\ page_status' = PageStatusAfterClose({st_ctx}, {st_page})
               /\ ctx_status' = CtxStatusAfterClose({st_ctx})
               /\ st_exc' = IF st_ctx # NoId /\ ctxCloseRaises
                            THEN "Exception" ELSE st_exc
    /\ st_pc' = "stop"
    /\ UNCHANGED <<st_list, st_idx, all_tenders, st_page, st_ctx, st_started,
                   st_stopped, page_ctx, engine_status, browser_status,
                   bmVars, inVars, mainVars, trVars, oteVars, exceptRun>>

\* scrape.py:371-375  the outer finally clause and the return
StStop ==
    /\ st_pc = "stop"
    /\ \E browserCloseRaises, playwrightStopRaises \in BOOLEAN :
          StopBody(browserCloseRaises, playwrightStopRaises)
    /\ st_stopped' = TRUE
    /\ st_exc' = IF bm_last' # "ok" THEN "Exception" ELSE st_exc
    /\ st_pc' = "returned"
    /\ UNCHANGED <<st_list, st_idx, all_tenders, st_page, st_ctx, st_started,
                   inVars, mainVars, trVars, oteVars, exceptRun>>

\* ========================================================= scrape.py: main
\* scrape.py:185  asyncio.run returns the list, or raises what
\* scrape_tenders raised (KeyboardInterrupt for a cancelled run)
MainAfterScrape ==
    /\ main_pc = "scrape" /\ st_pc = "returned"
    /\ CASE st_exc = "none" ->
              /\ main_tenders' = all_tenders
              /\ main_pc' = "clean"
              /\ UNCHANGED main_exc
         [] st_exc = "Cancelled" ->
              /\ main_exc' = "KeyboardInterrupt"
              /\ main_pc' = "handler"
              /\ UNCHANGED main_tenders
         [] st_exc = "Exception" ->
              /\ main_exc' = "Exception"
              /\ main_pc' = "handler"
              /\ UNCHANGED main_tenders
    /\ st_pc' = "done"
    /\ UNCHANGED <<original_count, main_ret, exit_status, st_exc, st_list,
                   st_idx, all_tenders, st_page, st_ctx, st_started,
                   st_stopped, inVars, trVars, oteVars, bmVars, engineVars,
                   exceptRun>>

\* variant: the size of the cleaned batch is reported
DedupedCountOfSurvivors(before, after) == after

\* scrape.py:190-192  the argument of tracker.set_deduped_count
DedupedCount(before, after) == before - after

\* scrape.py:189-199
MainClean ==
    /\ main_pc = "clean"
    /\ original_count' = Len(main_tenders)
    /\ main_tenders' = clean_and_deduplicate(main_tenders)
    /\ tr_deduped' = DedupedCount(original_count', Len(main_tenders'))
    /\ tr_saved' = tr_saved + Len(main_tenders')
    /\ main_pc' = "save"
    /\ UNCHANGED <<main_exc, main_ret, exit_status, tr_pages, tr_parsed,
                   tr_failures, tr_errors, tr_output, tr_finalized, inVars,
                   stVars, oteVars, bmVars, engineVars, exceptRun>>

\* metadata.py:69-84  count_tender_types: a record counts under its type,
\* or under Unknown when its type is not one of the four
count_tender_types(tenders) ==
    [t \in TenderTypes |->
        Cardinality({i \in 1..Len(tenders) :
            IF tenders[i].tender_type \in TenderTypes
            THEN tenders[i].tender_type = t ELSE t = "Unknown"})]

\* scrape.py:201-208  the records passed to storage.save: the cleaned batch,
\* or none at all in a dry run
RecordsHandedToStorage == IF in_dry_run THEN 0 ELSE Len(main_tenders)

\* scrape.py:201-208  storage.save may fail
MainSave ==
    /\ main_pc = "save"
    /\ IF in_dry_run
       THEN main_pc' = "finalize" /\ UNCHANGED <<main_exc, tr_output>>
       ELSE \E raises \in BOOLEAN :
               IF raises
               THEN /\ main_exc' = "Exception"
                    /\ main_pc' = "handler"
                    /\ UNCHANGED tr_output
               ELSE /\ tr_output' = TRUE
                    /\ main_pc' = "finalize"
                    /\ UNCHANGED main_exc
    /\ UNCHANGED <<main_tenders, original_count, main_ret, exit_status,
                   tr_pages, tr_parsed, tr_saved, tr_failures, tr_deduped,
                   tr_errors, tr_finalized, inVars, stVars, oteVars, bmVars,
                   engineVars, exceptRun>>

\* scrape.py:210
MainFinalize ==
    /\ main_pc = "finalize"
    /\ tr_finalized' = tr_finalized + 1
    /\ main_pc' = "save_meta"
    /\ UNCHANGED <<main_exc, main_tenders, original_count, main_ret,
                   exit_status, tr_pages, tr_parsed, tr_saved, tr_failures,
                   tr_deduped, tr_errors, tr_output, inVars, stVars, oteVars,
                   bmVars, engineVars, exceptRun>>

\* scrape.py:212-223  save_metadata may fail
MainSaveMetadata ==
    /\ main_pc = "save_meta"
    /\ \E raises \in BOOLEAN :
          IF ~in_dry_run /\ raises
          THEN /\ main_exc' = "Exception"
               /\ main_pc' = "handler"
               /\ UNCHANGED main_ret
          ELSE /\ main_ret' = 0
               /\ main_pc' = "returned"
               /\ UNCHANGED main_exc
    /\ UNCHANGED <<main_tenders, original_count, exit_status, trVars, inVars,
                   stVars, oteVars, bmVars, engineVars, exceptRun>>

\* a user interrupt after scrape_tenders has returned
MainInterrupt ==
    /\ main_pc \in {"clean", "save", "finalize", "save_meta"}
    /\ main_exc' = "KeyboardInterrupt"
    /\ main_pc' = "handler"
    /\ UNCHANGED <<main_tenders, original_count, main_ret, exit_status,
                   trVars, inVars, stVars, oteVars, bmVars, engineVars,
                   exceptRun>>

\* scrape.py:225-235  the two except clauses
MainHandler ==
    /\ main_pc = "handler"
    /\ IF main_exc = "KeyboardInterrupt"
       THEN AddError("Interrupted") /\ main_ret' = 130
       ELSE AddError("Fatal") /\ main_ret' = 1
    /\ tr_finalized' = tr_finalized + 1
    /\ main_pc' = "returned"
    /\ UNCHANGED <<main_exc, main_tenders, original_count, exit_status,
                   tr_pages, tr_parsed, tr_saved, tr_deduped, tr_output,
                   inVars, stVars, oteVars, bmVars, engineVars, exceptRun>>

\* scrape.py:23 and 454-455  main is a click command run in standalone
\* mode: when the callback returns, click ends the process through
\* ctx.exit(), with status 0, and the value returned by the callback never
\* reaches sys.exit
StandaloneExitStatus(ret) == 0

ProcessExit ==
    /\ main_pc = "returned"
    /\ exit_status' = StandaloneExitStatus(main_ret)
    /\ main_pc' = "exited"
    /\ UNCHANGED <<main_exc, main_tenders, original_count, main_ret, trVars,
                   inVars, stVars, oteVars, bmVars, engineVars, exceptRun>>

\* ========================================================= specifications
Next ==
    \/ StStart
    \/ StCreateContext
    \/ StGotoHome
    \/ StSearch
    \/ StExtractList
    \/ StTenderBegin
    \/ OteClick
    \/ OteWaitLoad
    \/ OteExtract
    \/ OteDocLink
    \/ OteDocsTab
    \/ OteFinally
    \/ StTenderResult
    \/ StRateLimitSleep
    \/ StBasicTender
    \/ StInterrupt
    \/ StInnerFinally
    \/ StStop
    \/ MainAfterScrape
    \/ MainClean
    \/ MainSave
    \/ MainFinalize
    \/ MainSaveMetadata
    \/ MainInterrupt
    \/ MainHandler
    \/ ProcessExit

\* ============================================= search.py: AdvancedSearch
SearchModes == {"perform_search", "perform_simple_search", "search_by_status"}

\* what the page offers to a search: whether a search-box selector matches
\* (box) and typing into the box raises (box_raises), the same for the
\* status element, whether loading the search form raises (goto_raises),
\* whether the form selector shows up (form), whether a field selector of
\* the wanted filter (field), a submit selector (submit) or the text-input
\* fallback (text_input) matches, and whether the wait after the submit
\* raises (load_raises)
SearchPages ==
    [box : BOOLEAN, box_raises : BOOLEAN, status_el : BOOLEAN,
     status_raises : BOOLEAN, goto_raises : BOOLEAN, form : BOOLEAN,
     field : BOOLEAN, submit : BOOLEAN, text_input : BOOLEAN,
     load_raises : BOOLEAN]

\* search.py:271-280  _fill_field (the same for _select_dropdown, 282-291):
\* the flag is dropped by _fill_search_form (196-269)
fill_field(page) == IF page.field THEN "True" ELSE "False"

\* search.py:297-321  _submit_search returns nothing, whether a button was
\* clicked, Enter was pressed in the first text input, or nothing was done
submit_search(page) ==
    IF page.submit THEN "clicked"
    ELSE IF page.text_input THEN "entered" ELSE "nothing_done"

\* search.py:97-121  perform_search; the results of filling and submitting
\* are not looked at
perform_search(page) ==
    IF page.goto_raises THEN "False"
    ELSE IF ~page.form THEN "False"
    ELSE LET filled == fill_field(page)
             submitted == submit_search(page)
         IN  IF page.load_raises THEN "False" ELSE "True"

\* search.py:123-161  perform_simple_search
perform_simple_search(page) ==
    IF page.box /\ ~page.box_raises THEN "True" ELSE perform_search(page)

\* search.py:163-194  search_by_status
search_by_status(page) ==
    IF page.status_el /\ ~page.status_raises THEN "True"
    ELSE perform_search(page)

SearchCall ==
    /\ call_pc = "called"
    /\ call_ret' =
          CASE call_args.fn = "perform_search" -> perform_search(call_args.page)
            [] call_args.fn = "perform_simple_search" ->
                  perform_simple_search(call_args.page)
            [] call_args.fn = "search_by_status" ->
                  search_by_status(call_args.page)
    /\ call_pc' = "returned"
    /\ UNCHANGED <<call_args, exceptCall>>

\* ========================== config/settings.py and the overrides of main
\* rate limits are counted in tenths of a second
RateLimitMin == 1
RateLimitMax == 100
RateLimitDefault == 10
ConcurrencyMin == 1
ConcurrencyMax == 10
ConcurrencyDefault == 3

\* a variable of the environment that is not set, an option that is not given
NotGiven == -1000

RateSamples == {NotGiven, -10, 0, 1, 10, 100, 101}
ConcurrencySamples == {NotGiven, 0, 1, 3, 10, 11}

\* settings.py:29-40  a field of Settings() read from the environment: the
\* default when the variable is not set, a validation error when the value
\* is out of range
Rejected == -2000
LoadField(env, default, min, max) ==
    IF env = NotGiven THEN default
    ELSE IF env >= min /\ env <= max THEN env ELSE Rejected

\* settings.py:106-108 and scrape.py:20  get_settings() at import
LoadSettings(env_rate, env_conc) ==
    [rate_limit |-> LoadField(env_rate, RateLimitDefault, RateLimitMin,
                              RateLimitMax),
     concurrency |-> LoadField(env_conc, ConcurrencyDefault, ConcurrencyMin,
                               ConcurrencyMax)]

\* scrape.py:158-161  `if option: settings.field = option`: the option is
\* assigned when it is given and not zero; Settings does not validate
\* assignments
Override(current, option) ==
    IF option # NotGiven /\ option # 0 THEN option ELSE current

\* settings.py:9-40  Settings() raises when a field is rejected, and the
\* import of scrape.py fails
ConfigLoad ==
    /\ call_pc = "import"
    /\ LET loaded == LoadSettings(call_args.env_rate, call_args.env_conc)
       IN  IF loaded.rate_limit = Rejected \/ loaded.concurrency = Rejected
           THEN call_pc' = "import_failed" /\ UNCHANGED call_ret
           ELSE call_pc' = "main" /\ call_ret' = loaded
    /\ UNCHANGED <<call_args, exceptCall>>

\* scrape.py:158-161
ConfigOverride ==
    /\ call_pc = "main"
    /\ call_ret' = [rate_limit |-> Override(call_ret.rate_limit,
                                            call_args.cli_rate),
                    concurrency |-> Override(call_ret.concurrency,
                                             call_args.cli_conc)]
    /\ call_pc' = "scraping"
    /\ UNCHANGED <<call_args, exceptCall>>

ConfigNext == ConfigLoad \/ ConfigOverride

\* extractor.py:20-44  one call of extract_tender_list
ListCall ==
    /\ call_pc = "called"
    /\ call_ret' = extract_tender_list(call_args.rows, call_args.tableFails)
    /\ call_pc' = "returned"
    /\ UNCHANGED <<call_args, exceptCall>>

\* ================================= extractor.py: _determine_tender_type
works_keywords ==
    {<<"c", "o", "n", "s", "t", "r", "u", "c", "t", "i", "o", "n">>,
     <<"b", "u", "i", "l", "d", "i", "n", "g">>,
     <<"r", "o", "a", "d">>,
     <<"b", "r", "i", "d", "g", "e">>,
     <<"r", "e", "p", "a", "i", "r">>,
     <<"m", "a", "i", "n", "t", "e", "n", "a", "n", "c", "e">>}
goods_keywords ==
    {<<"s", "u", "p", "p", "l", "y">>,
     <<"p", "u", "r", "c", "h", "a", "s", "e">>,
     <<"p", "r", "o", "c", "u", "r", "e", "m", "e", "n", "t">>,
     <<"e", "q", "u", "i", "p", "m", "e", "n", "t">>,
     <<"g", "o", "o", "d", "s">>}
services_keywords ==
    {<<"c", "o", "n", "s", "u", "l", "t", "a", "n", "c", "y">>,
     <<"s", "e", "r", "v", "i", "c", "e">>,
     <<"m", "a", "n", "a", "g", "e", "m", "e", "n", "t">>,
     <<"o", "p", "e", "r", "a", "t", "i", "o", "n">>,
     <<"a", "u", "d", "i", "t">>}

\* str.lower() on the letters that occur in the texts checked
Lower(s) ==
    LET LowerChar(c) ==
        CASE c = "A" -> "a"
          [] c = "L" -> "l"
          [] c = "N" -> "n"
          [] c = "P" -> "p"
          [] c = "R" -> "r"
          [] c = "S" -> "s"
          [] c = "U" -> "u"
          [] c = "Y" -> "y"
          [] OTHER -> c
    IN  [i \in 1..Len(s) |-> LowerChar(s[i])]

\* ' '.join(parts)
RECURSIVE JoinWithSpace(_)
JoinWithSpace(parts) ==
    IF parts = <<>> THEN <<>>
    ELSE IF Len(parts) = 1 THEN Head(parts)
    ELSE Head(parts) \o <<" ">> \o JoinWithSpace(Tail(parts))

\* `kw in text`, scanning from position i
RECURSIVE FindFrom(_, _, _)
FindFrom(kw, text, i) ==
    IF i + Len(kw) - 1 > Len(text) THEN FALSE
    ELSE IF SubSeq(text, i, i + Len(kw) - 1) = kw THEN TRUE
    ELSE FindFrom(kw, text, i + 1)

\* extractor.py:482-484  sum(1 for kw in keywords if kw in text)
KeywordCount(keywords, text) ==
    Cardinality({kw \in keywords : FindFrom(kw, text, 1)})

Max3(a, b, c) ==
    IF a >= b /\ a >= c THEN a ELSE IF b >= c THEN b ELSE c

\* variant: the tie is broken in favour of Goods
TypeByCountsGoodsFirst(works_count, goods_count, services_count) ==
    LET max_count == Max3(works_count, goods_count, services_count)
    IN  IF max_count = 0 THEN "Unknown"
        ELSE IF goods_count = max_count THEN "Goods"
        ELSE IF works_count = max_count THEN "Works"
        ELSE "Services"

\* extractor.py:486-495
TypeByCounts(works_count, goods_count, services_count) ==
    LET max_count == Max3(works_count, goods_count, services_count)
    IN  IF max_count = 0 THEN "Unknown"
        ELSE IF works_count = max_count THEN "Works"
        ELSE IF goods_count = max_count THEN "Goods"
        ELSE "Services"

\* extractor.py:470-495  _determine_tender_type
\* filter(None, parts) drops None and the empty string alike; the empty
\* text stands for both
determine_tender_type(title, organization, description) ==
    LET IsTruthyText(t) == t # <<>>
        text == Lower(JoinWithSpace(
                    SelectSeq(<<title, organization, description>>,
                              IsTruthyText)))
    IN  TypeByCounts(KeywordCount(works_keywords, text),
                     KeywordCount(goods_keywords, text),
                     KeywordCount(services_keywords, text))

TypeCall ==
    /\ call_pc = "called"
    /\ call_ret' = determine_tender_type(call_args.title,
                                         call_args.organization,
                                         call_args.description)
    /\ call_pc' = "returned"
    /\ UNCHANGED <<call_args, exceptCall>>

\* ================================== extractor.py: estimated contract value
\* a parsed number: the integer made of its digits and the count of digits
\* after the point, trailing zeros after the point dropped
RECURSIVE Normal(_)
Normal(v) ==
    IF v.scale > 0 /\ v.num % 10 = 0
    THEN Normal([num |-> v.num \div 10, scale |-> v.scale - 1])
    ELSE v

\* extractor.py:647  the group ([\d\.]+): the longest run of digits and
\* points at the start of the text that follows `var ecvvalue =`
RECURSIVE ScriptCapture(_)
ScriptCapture(rhs) ==
    IF rhs = <<>> \/ Head(rhs) \notin
           {"0", "1", "2", "3", "4", "5", "6", "7", "8", "9", "."}
    THEN <<>>
    ELSE <<Head(rhs)>> \o ScriptCapture(Tail(rhs))

\* extractor.py:650  float(text) of a run of digits and points: a value when
\* there is at least one digit and at most one point, ValueError otherwise
\* (<<>> stands for the failure, <<v>> for the value v)
ParseFloat(text) ==
    LET DigitValue(c) ==
            CHOOSE n \in 0..9 :
                <<"0", "1", "2", "3", "4", "5", "6", "7", "8", "9">>[n + 1] = c
        points == {i \in 1..Len(text) : text[i] = "."}
        digits == SelectSeq(text, LAMBDA c : c # ".")
        RECURSIVE Number(_)
        Number(ds) ==
            IF ds = <<>> THEN 0
            ELSE 10 * Number(SubSeq(ds, 1, Len(ds) - 1))
                     + DigitValue(ds[Len(ds)])
    IN  IF Cardinality(points) > 1 \/ digits = <<>> THEN <<>>
        ELSE <<Normal([num |-> Number(digits),
                       scale |-> IF points = {} THEN 0
                                 ELSE Len(text) - (CHOOSE i \in points : TRUE)])>>

\* extractor.py:645-653  _extract_script_value: None (<<>>) when the markup
\* has no assignment, when nothing is captured, or when float() fails
extract_script_value(script) ==
    IF ~script.assigned THEN <<>>
    ELSE LET text == ScriptCapture(script.rhs)
         IN  IF text = <<>> THEN <<>> ELSE ParseFloat(text)

\* variant: without a script value the table's figure is used
EstimatedValueFallsBackToTable(table_value, script_value) ==
    IF script_value # <<>> THEN script_value ELSE table_value

\* variant: the label/value table's figure is preferred to the script's
EstimatedValueTableFirst(table_value, script_value) ==
    IF table_value # <<>> THEN table_value ELSE script_value

\* extractor.py:114-116, 146  estimated_value of the record; the figure of
\* the table row 'Estimated Cost Value' (734) is not consulted
EstimatedValue(table_value, script_value) ==
    IF script_value # <<>> THEN script_value ELSE <<>>

EstimateCall ==
    /\ call_pc = "called"
    /\ call_ret' = [estimated_value |->
                        EstimatedValue(call_args.table,
                                       extract_script_value(call_args.script))]
    /\ call_pc' = "returned"
    /\ UNCHANGED <<call_args, exceptCall>>

\* ------------------------------------- clean_text applied to its own result
CleanTextCall ==
    /\ call_pc = "called"
    /\ call_ret' = [once |-> clean_text(call_args.text), twice |-> <<>>]
    /\ call_pc' = "cleaned"
    /\ UNCHANGED <<call_args, exceptCall>>

CleanTextAgain ==
    /\ call_pc = "cleaned"
    /\ call_ret' = [call_ret EXCEPT !.twice = clean_text(call_ret.once)]
    /\ call_pc' = "returned"
    /\ UNCHANGED <<call_args, exceptCall>>

\* ============================================ cleaner.py: normalize_date
\* cleaner.py:71-96.  A date string is a sequence of characters; <<"None">>
\* stands for None.  `$` of re.match also matches before one final newline.
\* strptime('%d-%m-%Y') takes a day of one or two digits, a month of one or
\* two digits and a year of four, and raises ValueError for a date that
\* does not exist; strftime('%Y-%m-%d') pads day and month to two digits.
normalize_date(date_str) ==
    LET Digit == <<"0", "1", "2", "3", "4", "5", "6", "7", "8", "9">>
        IsDigit(c) == \E n \in 1..10 : Digit[n] = c
        DigitValue(c) == (CHOOSE n \in 1..10 : Digit[n] = c) - 1
        RECURSIVE Number(_)
        Number(ds) ==
            IF ds = <<>> THEN 0
            ELSE 10 * Number(SubSeq(ds, 1, Len(ds) - 1))
                     + DigitValue(ds[Len(ds)])
        AllDigits(t) == \A i \in 1..Len(t) : IsDigit(t[i])
        \* the text up to `$`
        body == IF date_str # <<>> /\ date_str[Len(date_str)] = "\n"
                THEN SubSeq(date_str, 1, Len(date_str) - 1) ELSE date_str
        Shaped(t, a, b, c, sep) ==
            /\ Len(t) = a + b + c + 2
            /\ t[a + 1] = sep /\ t[a + b + 2] = sep
            /\ AllDigits(SubSeq(t, 1, a))
            /\ AllDigits(SubSeq(t, a + 2, a + b + 1))
            /\ AllDigits(SubSeq(t, a + b + 3, a + b + c + 2))
        Matches(a, b, c, sep) ==
            Shaped(date_str, a, b, c, sep) \/ Shaped(body, a, b, c, sep)
        Text(a, b, c, sep) ==
            IF Shaped(date_str, a, b, c, sep) THEN date_str ELSE body
        Reordered(t) ==
            SubSeq(t, 7, 10) \o <<"-">> \o SubSeq(t, 4, 5) \o <<"-">>
                \o SubSeq(t, 1, 2)
        \* strptime: the field widths (day, month) for which the text parses
        Widths == {w \in {1, 2} \X {1, 2} :
                       Shaped(date_str, w[1], w[2], 4, "-")}
        w0 == CHOOSE w \in Widths : TRUE
        day == Number(SubSeq(date_str, 1, w0[1]))
        month == Number(SubSeq(date_str, w0[1] + 2, w0[1] + w0[2] + 1))
        yearText == SubSeq(date_str, w0[1] + w0[2] + 3, Len(date_str))
        year == Number(yearText)
        Leap == year % 4 = 0 /\ (year % 100 # 0 \/ year % 400 = 0)
        DaysIn == IF month = 2 THEN (IF Leap THEN 29 ELSE 28)
                  ELSE IF month \in {4, 6, 9, 11} THEN 30 ELSE 31
        Parses == /\ Widths # {}
                  /\ year >= 1
                  /\ month \in 1..12
                  /\ day \in 1..DaysIn
        Two(n) == <<Digit[(n \div 10) + 1], Digit[(n % 10) + 1]>>
    IN  IF date_str = <<>> THEN <<"None">>
        ELSE IF Matches(4, 2, 2, "-") THEN date_str
        ELSE IF Matches(2, 2, 4, "-") THEN Reordered(Text(2, 2, 4, "-"))
        ELSE IF Matches(2, 2, 4, "/") THEN Reordered(Text(2, 2, 4, "/"))
        ELSE IF Parses
             THEN yearText \o <<"-">> \o Two(month) \o <<"-">> \o Two(day)
        ELSE date_str

NormalizeDateCall ==
    /\ call_pc = "called"
    /\ call_ret' = normalize_date(call_args.date_str)
    /\ call_pc' = "returned"
    /\ UNCHANGED <<call_args, exceptCall>>

\* ======================================= metadata.py: MetadataTracker alone
\* call_args.now is the reading of datetime.utcnow(); call_ret is the
\* tracker's RunMetadata, an absent time being <<>>, together with the end
\* times its finalize calls have set so far (ends)

\* variant: a tracker that has an end time keeps it
finalizeKeepsFirst(metadata, now) ==
    IF metadata.end_time # <<>> THEN [metadata EXCEPT !.ends = Append(@, now)]
    ELSE [metadata EXCEPT !.end_time = <<now>>,
                          !.duration_seconds = <<now - metadata.start_time>>,
                          !.ends = Append(@, now)]

\* metadata.py:48-59 finalize, models.py:236-239 calculate_duration
finalize(metadata, now) ==
    [metadata EXCEPT !.end_time = <<now>>,
                     !.duration_seconds = <<now - metadata.start_time>>,
                     !.ends = Append(@, now)]

\* the wall clock is read anew; it may have been set back
TrackerTick ==
    /\ call_pc = "tracking"
    /\ \E t \in 0..MaxClock : t # call_args.now /\ call_args' = [now |-> t]
    /\ UNCHANGED <<call_pc, call_ret, exceptCall>>

\* metadata.py:24-37  increment_pages / _parsed / _saved / _failures with
\* the default count, and set_deduped_count
TrackerUpdate ==
    /\ call_pc = "tracking"
    /\ \/ \E f \in {"pages_visited", "tenders_parsed", "tenders_saved",
                    "failures"} :
              /\ call_ret[f] < MaxCount
              /\ call_ret' = [call_ret EXCEPT ![f] = @ + 1]
       \/ \E n \in 0..MaxCount :
              /\ n # call_ret.deduped_count
              /\ call_ret' = [call_ret EXCEPT !.deduped_count = n]
    /\ UNCHANGED <<call_pc, call_args, exceptCall>>

TrackerFinalize ==
    /\ call_pc = "tracking"
    /\ Len(call_ret.ends) < MaxFinalize
    /\ call_ret' = finalize(call_ret, call_args.now)
    /\ UNCHANGED <<call_pc, call_args, exceptCall>>

\* ================================ scrape.py:269-294: the search of a run
\* a filter is given when its value is truthy
FilterNames ==
    {"keyword", "tender_status", "tender_type", "organization", "min_value"}

\* search.py:81-89  has_filters
has_filters(filters) == \E f \in FilterNames : filters[f]

\* variant: the status filter is looked at before the keyword
search_dispatchStatusFirst(filters) ==
    IF ~has_filters(filters) THEN <<>>
    ELSE IF filters.tender_status THEN <<"search_by_status">>
    ELSE IF filters.keyword THEN <<"perform_simple_search">>
    ELSE <<"perform_search">>

\* scrape.py:269-285  the entry modes the orchestrator invokes, in order
search_dispatch(filters) ==
    IF ~has_filters(filters) THEN <<>>
    ELSE IF filters.keyword THEN <<"perform_simple_search">>
    ELSE IF filters.tender_status THEN <<"search_by_status">>
    ELSE <<"perform_search">>

\* the filters a mode puts into the page: the quick modes are handed one
\* value (scrape.py:272, 278) and pass only that value on when they fall
\* back to the form (search.py:156-157, 189-190); the form takes every given
\* filter (search.py:196-280)
AppliedFilters(mode, filters, page) ==
    LET handed == CASE mode = "perform_simple_search" -> {"keyword"}
                    [] mode = "search_by_status" -> {"tender_status"}
                    [] OTHER -> {f \in FilterNames : filters[f]}
        quick == \/ mode = "perform_simple_search" /\ page.box
                 \/ mode = "search_by_status" /\ page.status_el
        formFilled == ~page.goto_raises /\ page.form /\ page.field
    IN  IF quick \/ formFilled THEN handed ELSE {}

\* scrape.py:269-288  the dispatch and the call of the chosen mode, whose
\* flag is only logged
DispatchSearch ==
    /\ call_pc = "called"
    /\ LET modes == search_dispatch(call_args.filters)
       IN  call_ret' =
             [invoked |-> modes,
              flag |-> IF modes = <<>> THEN "no_filters"
                       ELSE CASE modes[1] = "perform_search" ->
                                     perform_search(call_args.page)
                              [] modes[1] = "perform_simple_search" ->
                                     perform_simple_search(call_args.page)
                              [] modes[1] = "search_by_status" ->
                                     search_by_status(call_args.page),
              applied |-> IF modes = <<>> THEN {}
                          ELSE AppliedFilters(modes[1], call_args.filters,
                                              call_args.page)]
    /\ call_pc' = "searched"
    /\ UNCHANGED <<call_args, exceptCall>>

\* scrape.py:288-294  the wait and the listing extraction that follow
DispatchExtractList ==
    /\ call_pc = "searched"
    /\ call_pc' = "extract_list"
    /\ UNCHANGED <<call_args, call_ret, exceptCall>>

\* ================================= extractor.py: _extract_table_field
\* A page is its table rows in document order, a row the texts of its td
\* cells as get_text(strip=True) gives them; the pages checked have no th
\* and no div, span, strong or label with the label's text, so the second
\* and third strategy (688-709) find nothing.  <<>> as value stands for None.

\* extractor.py:679  the test of a cell against the label
LabelMatches(td_text, label) ==
    \/ FindFrom(Lower(label), Lower(td_text), 1)
    \/ FindFrom(Lower(td_text), Lower(label), 1)

\* extractor.py:685  `if value and value not in ['N A', 'N/A', '']`
ValueAccepted(value) ==
    /\ value # <<>>
    /\ value \notin {<<"N", " ", "A">>, <<"N", "/", "A">>}

\* extractor.py:677-686  the first td, in document order, that passes the
\* test and whose next td sibling in its row has an accepted value
extract_table_field(page, label) ==
    LET cells == UNION {{<<r, c>> : c \in 1..(Len(page[r]) - 1)} :
                           r \in 1..Len(page)}
        hits == {rc \in cells :
                    /\ LabelMatches(page[rc[1]][rc[2]], label)
                    /\ ValueAccepted(page[rc[1]][rc[2] + 1])}
    IN  IF hits = {} THEN [value |-> <<>>, row |-> 0, col |-> 0]
        ELSE LET first == CHOOSE rc \in hits :
                             \A other \in hits :
                                 \/ rc[1] < other[1]
                                 \/ rc[1] = other[1] /\ rc[2] <= other[2]
             IN  [value |-> page[first[1]][first[2] + 1],
                  row |-> first[1], col |-> first[2]]

TableFieldCall ==
    /\ call_pc = "called"
    /\ call_ret' = extract_table_field(call_args.page, call_args.label)
    /\ call_pc' = "returned"
    /\ UNCHANGED <<call_args, exceptCall>>

CallIdle ==
    /\ call_pc = "idle"
    /\ call_args = <<>>
    /\ call_ret = "none"

\* everything but the function under check is at rest
OthersIdle ==
    CleanIdle /\ GotoIdle /\ BrowserInit /\ DetailsIdle /\ RunIdle

\* a run of the command: main, scrape_tenders, open_tender_and_extract
Init ==
    RunInit /\ BrowserInit /\ CleanIdle /\ GotoIdle /\ DetailsIdle /\ CallIdle

Spec == Init /\ [][Next]_vars

\* clean_and_deduplicate on a batch
InitClean ==
    CleanInit /\ GotoIdle /\ BrowserInit /\ DetailsIdle /\ RunIdle /\ CallIdle

SpecClean == InitClean /\ [][CleanNext]_vars

\* one call of PageNavigator.goto
InitGoto ==
    GotoInit /\ CleanIdle /\ BrowserInit /\ DetailsIdle /\ RunIdle /\ CallIdle

SpecGoto == InitGoto /\ [][GotoNext]_vars

\* calls on one BrowserManager, in any order
InitBrowser ==
    BrowserInit /\ CleanIdle /\ GotoIdle /\ DetailsIdle /\ RunIdle /\ CallIdle

SpecBrowser == InitBrowser /\ [][BrowserNext]_vars

\* one call of extract_tender_details
InitDetails ==
    DetailsInit /\ CleanIdle /\ GotoIdle /\ BrowserInit /\ RunIdle /\ CallIdle

SpecDetails == InitDetails /\ [][DetailsNext]_vars

\* one call of a search mode
InitSearch ==
    /\ call_pc = "called"
    /\ call_args \in [fn : SearchModes, page : SearchPages]
    /\ call_ret = "none"
    /\ OthersIdle

SpecSearch == InitSearch /\ [][SearchCall]_vars

\* the settings of a run: the environment, then the command line
InitConfig ==
    /\ call_pc = "import"
    /\ call_args \in [env_rate : RateSamples, env_conc : ConcurrencySamples,
                      cli_rate : RateSamples, cli_conc : ConcurrencySamples]
    /\ call_ret = "none"
    /\ OthersIdle

SpecConfig == InitConfig /\ [][ConfigNext]_vars

\* one call of extract_tender_list on a rendered table
InitList ==
    /\ call_pc = "called"
    /\ call_args \in [rows : SeqsUpTo(Rows, MaxList), tableFails : BOOLEAN]
    /\ call_ret = "none"
    /\ OthersIdle

SpecList == InitList /\ [][ListCall]_vars

\* one call of _determine_tender_type; a text is up to two words joined by
\* a space, or nothing
InitType ==
    LET TypeWords == {<<"R", "o", "a", "d">>,
                      <<"b", "r", "i", "d", "g", "e">>,
                      <<"b", "r", "o", "a", "d">>,
                      <<"S", "U", "P", "P", "L", "Y">>,
                      <<"g", "o", "o", "d", "s">>,
                      <<"a", "u", "d", "i", "t">>,
                      <<"s", "e", "r", "v", "i", "c", "e", "s">>,
                      <<"i", "t", "e", "m">>}
        TypeTexts ==
            {<<>>} \cup TypeWords
                \cup {JoinWithSpace(<<a, b>>) : a \in TypeWords, b \in TypeWords}
    IN  /\ call_pc = "called"
        /\ call_args \in [title : TypeTexts,
                          organization : {<<>>} \cup TypeWords,
                          description : {<<>>} \cup TypeWords]
        /\ call_ret = "none"
        /\ OthersIdle

SpecType == InitType /\ [][TypeCall]_vars

\* one detail page: the figure of its table row, if any, and the text after
\* `var ecvvalue =` in its markup, if the assignment is there
InitEstimate ==
    /\ call_pc = "called"
    /\ call_args \in
         [table : {<<>>, <<[num |-> 45, scale |-> 1]>>,
                   <<[num |-> 100, scale |-> 0]>>},
          script : {[assigned |-> FALSE, rhs |-> <<>>]}
                     \cup [assigned : {TRUE},
                           rhs : SeqsUpTo({"4", "5", "0", ".", ";"},
                                          MaxScriptLen)]]
    /\ call_ret = [estimated_value |-> <<>>]
    /\ OthersIdle

SpecEstimate == InitEstimate /\ [][EstimateCall]_vars

\* every text of up to MaxTextLen characters: a word character, a space, a
\* punctuation character outside the allow-set, and the tag brackets
InitCleanText ==
    /\ call_pc = "called"
    /\ call_args \in [text : SeqsUpTo({"a", " ", "!", "<", ">"}, MaxTextLen)]
    /\ call_ret = [once |-> <<>>, twice |-> <<>>]
    /\ OthersIdle

SpecCleanText == InitCleanText /\ [][CleanTextCall \/ CleanTextAgain]_vars

\* date strings: three runs of digits joined by two separators, with or
\* without a final newline, and a text with no digits
InitDate ==
    LET Runs == {<<"5">>, <<"1", "5">>, <<"0", "2">>, <<"3", "1">>,
                 <<"2", "0", "2", "6">>}
        Seps == {<<"-">>, <<"/">>}
        Ends == {<<>>, <<"\n">>}
    IN  /\ call_pc = "called"
        /\ call_args \in
             [date_str : {a \o s \o b \o t \o c \o e :
                              a \in Runs, s \in Seps, b \in Runs, t \in Seps,
                              c \in Runs, e \in Ends}
                           \cup {<<"F", "e", "b", " ", "2", "0", "2", "6">>}]
        /\ call_ret = <<"None">>
        /\ OthersIdle

SpecDate == InitDate /\ [][NormalizeDateCall]_vars

\* metadata.py:14-20  a tracker just constructed, at any clock reading
InitTracker ==
    /\ call_pc = "tracking"
    /\ call_args \in [now : 0..MaxClock]
    /\ call_ret = [start_time |-> call_args.now, end_time |-> <<>>,
                   duration_seconds |-> <<>>, pages_visited |-> 0,
                   tenders_parsed |-> 0, tenders_saved |-> 0, failures |-> 0,
                   deduped_count |-> 0, ends |-> <<>>]
    /\ OthersIdle

SpecTracker ==
    InitTracker /\ [][TrackerTick \/ TrackerUpdate \/ TrackerFinalize]_vars

\* the search of one run: the filters given and what the page offers
InitDispatch ==
    /\ call_pc = "called"
    /\ call_args \in [filters : [FilterNames -> BOOLEAN], page : SearchPages]
    /\ call_ret = [invoked |-> <<>>, flag |-> "none", applied |-> {}]
    /\ OthersIdle

SpecDispatch ==
    InitDispatch /\ [][DispatchSearch \/ DispatchExtractList]_vars

\* one call of _extract_table_field for the label "Up" on a page of up to
\* MaxRows rows of one to three cells: empty cells, cells that equal the
\* label up to case, are contained in it or contain it, an unrelated cell,
\* a blank marker and a value
InitTableField ==
    LET Texts == {<<>>, <<"U", "P">>, <<"u">>, <<"s", "u", "p">>, <<"r">>,
                  <<"N", "/", "A">>, <<"v">>}
        RowsOf == UNION {[1..n -> Texts] : n \in 1..2}
                      \cup {<<a, <<>>, <<"v">>>> : a \in Texts}
    IN  /\ call_pc = "called"
        /\ call_args \in [page : SeqsUpTo(RowsOf, MaxRows),
                          label : {<<"U", "p">>}]
        /\ call_ret = [value |-> <<>>, row |-> 0, col |-> 0]
        /\ OthersIdle

SpecTableField == InitTableField /\ [][TableFieldCall]_vars

\* ------------------------------------------------------------ claim C1
\* positions of the first record of each tender_id in a batch
FirstPositions(ts) ==
    {i \in 1..Len(ts) : \A j \in 1..(i - 1) : ts[j].tender_id # ts[i].tender_id}

RECURSIVE PickPositions(_, _, _)
PickPositions(ts, P, i) ==
    IF i > Len(ts) THEN <<>>
    ELSE IF i \in P THEN <<ts[i]>> \o PickPositions(ts, P, i + 1)
         ELSE PickPositions(ts, P, i + 1)

\* C1: the list returned by clean_and_deduplicate has no two records with
\* the same tender_id, holds for each tender_id of the input exactly the
\* first input record carrying it (in its cleaned form), and keeps the
\* survivors in input order.
C1_DedupFirstSeen ==
    cad_pc = "done" =>
        /\ \A i, j \in 1..Len(cad_unique) :
               cad_unique[i].tender_id = cad_unique[j].tender_id => i = j
        /\ cad_unique =
               PickPositions(clean_batch(cad_tenders),
                             FirstPositions(cad_tenders), 1)

\* a batch with a repeated id whose occurrences differ has been deduplicated
C1_Witness ==
    /\ cad_pc = "done"
    /\ Len(cad_unique) < Len(cad_tenders)
    /\ \E i, j \in 1..Len(cad_tenders) :
           /\ i < j
           /\ cad_tenders[i].tender_id = cad_tenders[j].tender_id
           /\ clean_tender(cad_tenders[i]) # clean_tender(cad_tenders[j])

\* ------------------------------------------------------------ claim C2
\* records of a batch whose tender_id occurs earlier in the batch
LaterOccurrences(ts) == (1..Len(ts)) \ FirstPositions(ts)

\* C2: the deduped_count main reports for the batch scrape_tenders returned
\* is the number of records whose tender_id occurred earlier in the batch,
\* that is the occurrences of each tender_id minus one, summed over the ids.
C2_DedupedCount ==
    original_count # NoCount =>
        /\ original_count = Len(all_tenders)
        /\ tr_deduped = Cardinality(LaterOccurrences(all_tenders))
        /\ tr_deduped =
              Len(all_tenders)
                - Cardinality({all_tenders[i].tender_id :
                                   i \in 1..Len(all_tenders)})

\* a listing that names the same tender twice has been scraped and counted
C2_Witness ==
    /\ original_count = 2
    /\ tr_deduped = 1
    /\ all_tenders[1].tender_id = all_tenders[2].tender_id
    /\ all_tenders[1] # all_tenders[2]

\* ------------------------------------------------------------ claim C3
AttemptIdx == {i \in 1..Len(nav_events) : nav_events[i].kind = "attempt"}
SleepIdx == {i \in 1..Len(nav_events) : nav_events[i].kind = "sleep"}

\* C3 (as claimed): every failed attempt that is not the last one, whether
\* the load raised, gave no response or gave a response that is not ok, is
\* followed by a backoff of 2^k before the next attempt; two failures and a
\* success with max_retries = 3 give True after exactly 2 backoff delays.
C3_BackoffAfterEveryFailure ==
    /\ \A i \in AttemptIdx :
          (nav_events[i].outcome # "ok" /\ i < Len(nav_events)) =>
              /\ nav_events[i + 1].kind = "sleep"
              /\ nav_events[i + 1].secs = Pow2(nav_events[i].k)
    /\ (/\ nav_pc = "returned"
        /\ nav_max_retries = 3
        /\ Cardinality(AttemptIdx) = 3
        /\ nav_events[Len(nav_events)].outcome = "ok")
          => (nav_result = "True" /\ Cardinality(SleepIdx) = 2)

\* ------------------------------------------------------------ claim C4
\* C4: goto makes at most max_retries attempts, none after the first ok
\* response, returns True exactly when some attempt had an ok response and
\* False otherwise (also with max_retries = 0, after zero attempts).
C4_GotoResult ==
    /\ Cardinality(AttemptIdx) <= nav_max_retries
    /\ \A i \in AttemptIdx :
          nav_events[i].outcome = "ok" => i = Len(nav_events)
    /\ nav_pc = "returned" =>
          /\ nav_result \in {"True", "False"}
          /\ nav_result = "True" <=>
                \E i \in AttemptIdx : nav_events[i].outcome = "ok"

\* the retries were used up by a load that raised each time
C4_Witness ==
    /\ nav_pc = "returned"
    /\ nav_result = "False"
    /\ nav_max_retries = 3
    /\ Cardinality(AttemptIdx) = 3
    /\ \A i \in AttemptIdx : nav_events[i].outcome = "raises"

\* ------------------------------------------------------------ claim C5
\* C5 (as claimed): on every exit of the managed_page block, also when
\* closing the page raises, the page and the context it created are closed
\* and the context is no longer in the tracked pool.
C5_ManagedPageReleases ==
    mp_pc = "exited" =>
        /\ page_status[mp_page] = "closed"
        /\ ctx_status[mp_ctx] = "closed"
        /\ mp_ctx \notin Range(bm_contexts)

\* ------------------------------------------------------------ claim C6
\* C6 (as claimed): once start() has been invoked, scrape_tenders runs
\* stop() on every way out, and after it, also when a close raised, every
\* tracked context is closed, the pool is empty, the browser is closed, the
\* engine is stopped, and browser and playwright are unset.
C6_StopReleasesEverything ==
    (st_pc \in {"returned", "done"} /\ st_started) =>
        /\ st_stopped
        /\ \A c \in CtxIds : ctx_status[c] # "open"
        /\ bm_contexts = <<>>
        /\ browser_status # "open"
        /\ engine_status # "running"
        /\ bm_browser = "unset"
        /\ bm_playwright = "unset"

C8_CreateContext ==
    [][BMCreateContext =>
        /\ bm_life \in {"new", "stopped"} =>
              (bm_last' = "NotStarted" /\ bm_contexts' = bm_contexts)
        /\ bm_life = "started" =>
              /\ bm_last' = "ok"
              /\ Len(bm_contexts') = Len(bm_contexts) + 1
              /\ SubSeq(bm_contexts', 1, Len(bm_contexts)) = bm_contexts
              /\ bm_contexts'[Len(bm_contexts')] \notin Range(bm_contexts)
              /\ ctx_status'[bm_contexts'[Len(bm_contexts')]] = "open"]_vars

\* create_context has been refused after a stop(), with contexts created
\* before that stop()
C8_Witness ==
    /\ bm_life = "stopped"
    /\ bm_last = "NotStarted"
    /\ \E c \in CtxIds : ctx_status[c] = "closed"

\* ------------------------------------------------------------ claim C9
\* C9 (as claimed): once the page has loaded, a failure inside any
\* sub-extraction leaves only that field absent; extract_tender_details
\* still returns the record, holding the result of every sub-extraction
\* that did not fail, and never returns nothing because one of them failed.
C9_SubExtractionFailureIsLocal ==
    (det_pc = "returned" /\ "load" \notin det_failed) =>
        /\ det_result = "record"
        /\ \A n \in SubNames :
              det_local[n] = IF n \in det_failed THEN "absent"
                             ELSE SubResult(n, det_page, "ok")

\* ----------------------------------------------------------- claim C10
\* C10 (as claimed): a run ended by an interrupt or by another failure has
\* finalized the tracker; the process ends with status 130 and a recorded
\* "Interrupted" error after an interrupt, with status 1 and a recorded
\* "Fatal" error after another failure, and with status 0 after success.
C10_ExitStatusByOutcome ==
    main_pc = "exited" =>
        /\ main_exc # "none" => tr_finalized >= 1
        /\ main_exc = "KeyboardInterrupt" =>
              /\ tr_errors[Len(tr_errors)] = "Interrupted"
              /\ exit_status = 130
        /\ main_exc = "Exception" =>
              /\ tr_errors[Len(tr_errors)] = "Fatal"
              /\ exit_status = 1
        /\ main_exc = "none" => exit_status = 0

\* ----------------------------------------------------------- claim C11
\* C11 (as claimed): when main has returned, whatever the outcome and
\* wherever in the try block a failure was raised, the tracker's finalize
\* has been called exactly once.
C11_FinalizeExactlyOnce ==
    main_pc \in {"returned", "exited"} => tr_finalized = 1

\* ----------------------------------------------------------- claim C12
FailedEvents == {i \in 1..Len(st_events) : st_events[i].kind = "failed"}

\* C12 (as claimed): every failure that occurred during the run (of the
\* navigation, of a search, of the list extraction, of a list row, of a
\* whole detail extraction) has an entry in the tracker's error log, so when
\* main has returned the failures counter is at least the number of
\* failures that occurred.
C12_FailuresRecorded ==
    main_pc \in {"returned", "exited"} =>
        tr_failures >= Cardinality(FailedEvents)

\* ----------------------------------------------------------- claim C13
\* no candidate selector of the mode matches an element of the page
NoSelectorMatches(fn, page) ==
    /\ fn = "perform_simple_search" => ~page.box
    /\ fn = "search_by_status" => ~page.status_el
    /\ ~page.field
    /\ ~page.submit
    /\ ~page.text_input

\* C13 (as claimed): a search mode hands a flag back to its caller and
\* never an error, and the flag is False whenever none of its candidate
\* selectors matches, also when the form is there and neither a field
\* selector nor a submit selector matches.
C13_SearchDegrades ==
    call_pc = "returned" =>
        /\ call_ret \in {"True", "False"}
        /\ NoSelectorMatches(call_args.fn, call_args.page) => call_ret = "False"

\* ----------------------------------------------------------- claim C14
\* C14: in detail mode the detail page of a tender that is not the first is
\* requested right after the rate-limit sleep that follows the tender
\* before it, whether that tender gave a record or nothing (an error raised
\* while it was processed is turned into nothing by open_tender_and_extract);
\* the sleep starts when the processing of the tender has ended, with its
\* detail page and document tab closed.
C14_RateLimitBetweenTenders ==
    /\ \A p \in 1..Len(st_events) :
          (st_events[p].kind = "request" /\ st_events[p].idx > 1) =>
              /\ p > 1
              /\ st_events[p - 1] = SleepRateEvent(st_events[p].idx - 1)
    /\ \A p \in 1..Len(st_events) :
          st_events[p].kind = "sleep" =>
              \E q \in 1..(p - 1) :
                  st_events[q] = RequestEvent(st_events[p].idx)
    /\ st_pc = "rate_sleep" =>
          /\ ote_pc = "idle"
          /\ st_idx < Len(st_list)
          /\ \A pg \in PageIds : page_status[pg] = "open" => pg = st_page

\* the second tender has been requested after a first one that gave nothing
C14_Witness ==
    /\ Len(st_events) >= 4
    /\ \E p \in 1..(Len(st_events) - 3) :
          /\ st_events[p] = RequestEvent(1)
          /\ st_events[p + 1] = FailureEvent("detail")
          /\ st_events[p + 2] = SleepRateEvent(1)
          /\ st_events[p + 3] = RequestEvent(2)

\* ----------------------------------------------------------- claim C15
\* pages other than the listing page that are open
OpenSecondaryPages == {p \in PageIds : page_status[p] = "open" /\ p # st_page}

C16_SettingsWithinBounds ==
    call_pc = "scraping" =>
        /\ call_ret.rate_limit \in RateLimitMin..RateLimitMax
        /\ call_ret.concurrency \in ConcurrencyMin..ConcurrencyMax

\* ----------------------------------------------------------- claim C17
\* rows with at least 3 cells, a tender id in the detail cell, and whose
\* elements can be read
UsableRows(rows) ==
    {i \in 1..Len(rows) : /\ rows[i].cells >= 3
                          /\ rows[i].tender_id # NoTenderId
                          /\ ~rows[i].raises}

\* C17: extract_tender_list gives no entry for a row with fewer than 3
\* cells or without a tender id, at most one entry per row, and the entries
\* in row order; a row that fails does not keep later rows from being
\* extracted: when the table could be read the result is exactly the
\* usable rows, in order.
C17_ListIsSubsequenceOfRows ==
    call_pc = "returned" =>
        LET rows == call_args.rows
            kept == PickPositions(rows, UsableRows(rows), 1)
        IN  /\ Len(call_ret) <= Len(rows)
            /\ \E P \in SUBSET UsableRows(rows) :
                  LET sub == PickPositions(rows, P, 1)
                  IN  /\ Len(call_ret) = Len(sub)
                      /\ \A k \in 1..Len(sub) : call_ret[k] = sub[k].tender_id
            /\ ~call_args.tableFails =>
                  /\ Len(call_ret) = Len(kept)
                  /\ \A k \in 1..Len(kept) : call_ret[k] = kept[k].tender_id

\* a row that failed, followed by a row that was extracted
C17_Witness ==
    /\ call_pc = "returned"
    /\ Len(call_args.rows) >= 2
    /\ call_args.rows[1].raises
    /\ call_args.rows[2].cells = 3
    /\ Len(call_ret) = 1
    /\ call_ret[1] = call_args.rows[2].tender_id

\* ----------------------------------------------------------- claim C18
\* kw occurs in text at some position
Occurs(kw, text) ==
    \E i \in 1..(Len(text) - Len(kw) + 1) :
        \A j \in 1..Len(kw) : text[i + j - 1] = kw[j]

\* number of keywords of a set that occur in text
Hits(keywords, text) == Cardinality({kw \in keywords : Occurs(kw, text)})

\* the lower-cased concatenation of the non-empty fields of a call
ClassifiedText ==
    LET given == {f \in {"title", "organization", "description"} :
                      call_args[f] # <<>>}
        t == IF "title" \in given THEN <<call_args.title>> ELSE <<>>
        o == IF "organization" \in given
             THEN <<call_args.organization>> ELSE <<>>
        d == IF "description" \in given
             THEN <<call_args.description>> ELSE <<>>
    IN  Lower(JoinWithSpace(t \o o \o d))

\* C18: _determine_tender_type returns Works, Goods or Services exactly when
\* that set has a non-zero hit count that no other set exceeds and no set
\* earlier in the order Works, Goods, Services equals; it returns Unknown
\* exactly when all three counts are zero.
C18_TypeByHighestCount ==
    call_pc = "returned" =>
        LET w == Hits(works_keywords, ClassifiedText)
            g == Hits(goods_keywords, ClassifiedText)
            s == Hits(services_keywords, ClassifiedText)
        IN  /\ call_ret = "Works" <=> (w > 0 /\ w >= g /\ w >= s)
            /\ call_ret = "Goods" <=> (g > 0 /\ g > w /\ g >= s)
            /\ call_ret = "Services" <=> (s > 0 /\ s > w /\ s > g)
            /\ call_ret = "Unknown" <=> (w = 0 /\ g = 0 /\ s = 0)

\* C18 witness: "Road bridge" with description "SUPPLY" has two works hits
\* and one goods hit, and the call has returned Works
C18_Witness ==
    /\ call_pc = "returned"
    /\ call_args.title = <<"R", "o", "a", "d", " ", "b", "r", "i", "d", "g", "e">>
    /\ call_args.organization = <<>>
    /\ call_args.description = <<"S", "U", "P", "P", "L", "Y">>
    /\ Hits(works_keywords, ClassifiedText) = 2
    /\ Hits(goods_keywords, ClassifiedText) = 1
    /\ call_ret = "Works"

\* ----------------------------------------------------------- claim C19
\* the numeral a page's script assigns: the text up to the first character
\* that is neither a digit nor a point
RECURSIVE Numeral(_)
Numeral(rhs) ==
    IF rhs = <<>> \/ Head(rhs) = ";" THEN <<>>
    ELSE <<Head(rhs)>> \o Numeral(Tail(rhs))

\* the page carries a script value: the assignment is there and its numeral
\* has a digit and at most one point
HasScriptValue(script) ==
    /\ script.assigned
    /\ \E i \in 1..Len(Numeral(script.rhs)) : Numeral(script.rhs)[i] # "."
    /\ Cardinality({i \in 1..Len(Numeral(script.rhs)) :
                        Numeral(script.rhs)[i] = "."}) <= 1

RECURSIVE TenTo(_)
TenTo(n) == IF n = 0 THEN 1 ELSE 10 * TenTo(n - 1)

\* the number v equals the numeral t read as a decimal
RECURSIVE DigitsValue(_)
DigitsValue(t) ==
    IF t = <<>> THEN 0
    ELSE LET c == t[Len(t)]
             d == IF c = "4" THEN 4 ELSE IF c = "5" THEN 5 ELSE 0
         IN  10 * DigitsValue(SubSeq(t, 1, Len(t) - 1)) + d

IsValueOf(v, t) ==
    LET digits == SelectSeq(t, LAMBDA c : c # ".")
        after == IF \E i \in 1..Len(t) : t[i] = "."
                 THEN Len(t) - (CHOOSE i \in 1..Len(t) : t[i] = ".")
                 ELSE 0
    IN  v.num * TenTo(after) = DigitsValue(digits) * TenTo(v.scale)

\* C19: when the detail page has a figure in its label/value table and a
\* value assigned in its script, the record's estimated_value is the
\* script's value.
C19_ScriptValueTakesPrecedence ==
    (/\ call_pc = "returned"
     /\ call_args.table # <<>>
     /\ HasScriptValue(call_args.script))
        => /\ call_ret.estimated_value # <<>>
           /\ IsValueOf(call_ret.estimated_value[1],
                        Numeral(call_args.script.rhs))

\* C19 witness: the table shows 100, the script assigns 4.5, and the record
\* holds 4.5
C19_Witness ==
    /\ call_pc = "returned"
    /\ call_args.table = <<[num |-> 100, scale |-> 0]>>
    /\ call_args.script = [assigned |-> TRUE, rhs |-> <<"4", ".", "5">>]
    /\ call_ret.estimated_value = <<[num |-> 45, scale |-> 1]>>

\* ----------------------------------------------------------- claim C20
\* C20 (as claimed): cleaning an already cleaned text gives the same text:
\* clean_text(clean_text(s)) = clean_text(s) for every s.
C20_CleanTextIdempotent ==
    call_pc = "returned" => call_ret.twice = call_ret.once

\* ----------------------------------------------------------- claim C21
\* t is a digits, a separator, b digits, the separator, c digits
HasShape(t, a, b, c, sep) ==
    /\ Len(t) = a + b + c + 2
    /\ \A i \in 1..Len(t) :
           IF i \in {a + 1, a + b + 2} THEN t[i] = sep
           ELSE t[i] \in {"0", "1", "2", "3", "4", "5", "6", "7", "8", "9"}

\* C21 (as claimed): normalize_date returns a YYYY-MM-DD string unchanged,
\* turns DD-MM-YYYY and DD/MM/YYYY into YYYY-MM-DD, and returns every other
\* non-empty string exactly as it was given.
C21_NormalizeDate ==
    call_pc = "returned" =>
        LET s == call_args.date_str
        IN  IF HasShape(s, 4, 2, 2, "-") THEN call_ret = s
            ELSE IF HasShape(s, 2, 2, 4, "-") \/ HasShape(s, 2, 2, 4, "/")
                 THEN call_ret = SubSeq(s, 7, 10) \o <<"-">> \o SubSeq(s, 4, 5)
                                     \o <<"-">> \o SubSeq(s, 1, 2)
            ELSE call_ret = s

\* ----------------------------------------------------------- claim C22
\* C22: in every step of a run no counter of the tracker decreases, and the
\* error log only grows at its end: the entries it had stay, unaltered and
\* in the order they were added.
C22_CountersMonotoneLogAppendOnly ==
    [][/\ tr_pages' >= tr_pages
       /\ tr_parsed' >= tr_parsed
       /\ tr_saved' >= tr_saved
       /\ tr_failures' >= tr_failures
       /\ tr_deduped' >= tr_deduped
       /\ Len(tr_errors') >= Len(tr_errors)
       /\ SubSeq(tr_errors', 1, Len(tr_errors)) = tr_errors]_vars

\* C22 witness: a run that visited a page, parsed a tender, saved a record
\* and has two entries in its error log
C22_Witness ==
    /\ tr_pages >= 1
    /\ tr_parsed >= 1
    /\ tr_saved >= 1
    /\ Len(tr_errors) >= 2

\* ----------------------------------------------------------- claim C23
\* C23: a finalize call sets the end time to the time of the call and the
\* duration to that time minus the stored start time, whether or not the
\* tracker was finalized before, and leaves the start time and all counters
\* as they were.
C23_FinalizeOverwritesEndTime ==
    [][Len(call_ret'.ends) > Len(call_ret.ends) =>
          /\ call_ret'.end_time = <<call_args.now>>
          /\ call_ret'.duration_seconds
               = <<call_args.now - call_ret.start_time>>
          /\ \A f \in {"start_time", "pages_visited", "tenders_parsed",
                       "tenders_saved", "failures", "deduped_count"} :
                 call_ret'[f] = call_ret[f]]_vars

\* C23 witness: finalize was called twice at different times and the
\* tracker holds the end time and duration of the second call
C23_Witness ==
    /\ call_pc = "tracking"
    /\ Len(call_ret.ends) = 2
    /\ call_ret.ends[1] # call_ret.ends[2]
    /\ call_ret.end_time = <<call_ret.ends[2]>>
    /\ call_ret.duration_seconds = <<call_ret.ends[2] - call_ret.start_time>>
    /\ call_ret.tenders_parsed = 1

\* ----------------------------------------------------------- claim C24
\* C24 (as claimed): when the detail loop has ended without an interrupt,
\* every tender of the list has given either a record or an error entry:
\* records appended plus DetailScraping entries equals the length of the
\* list.
C24_EveryTenderAccountedFor ==
    (/\ in_details
     /\ st_pc = "inner_finally"
     /\ st_exc = "none"
     /\ st_idx >= 1)
        => Len(all_tenders)
             + Cardinality({i \in 1..Len(tr_errors) :
                               tr_errors[i] = "DetailScraping"})
           = Len(st_list)

\* ----------------------------------------------------------- claim C25
\* C25 (as claimed): no browsing context is tracked twice: the positions of
\* the pool _contexts hold pairwise different contexts.
C25_PoolHasNoDuplicates ==
    \A i, j \in 1..Len(bm_contexts) :
        bm_contexts[i] = bm_contexts[j] => i = j

\* ----------------------------------------------------------- claim C26
\* C26 (as claimed): when main has returned 0, tenders_parsed is
\* tenders_saved plus deduped_count, the counts by type add up to
\* tenders_saved, and tenders_saved is the number of records that were
\* handed to storage.
C26_FinalMetadataBalances ==
    main_ret = 0 =>
        LET counts == count_tender_types(main_tenders)
        IN  /\ tr_parsed = tr_saved + tr_deduped
            /\ counts["Goods"] + counts["Works"] + counts["Services"]
                 + counts["Unknown"] = tr_saved
            /\ tr_saved = RecordsHandedToStorage

\* ----------------------------------------------------------- claim C27
\* C27: the record's estimated_value is the value read from the script or
\* absent; when the markup has no assignment for it the field is absent,
\* whatever the table row "Estimated Cost Value" shows.
C27_TableValueNeverUsed ==
    call_pc = "returned" =>
        /\ call_ret.estimated_value
             \in {<<>>, extract_script_value(call_args.script)}
        /\ ~call_args.script.assigned => call_ret.estimated_value = <<>>

\* C27 witness: the table shows 100, the markup has no assignment, and the
\* record has no estimated_value
C27_Witness ==
    /\ call_pc = "returned"
    /\ call_args.table = <<[num |-> 100, scale |-> 0]>>
    /\ ~call_args.script.assigned
    /\ call_ret.estimated_value = <<>>

\* ----------------------------------------------------------- claim C28
\* the listing extract_tender_list returned, and the turns of the detail
\* loop that requested a detail page
ExtractedListing ==
    LET at == {i \in 1..Len(st_events) : st_events[i].kind = "listed"}
    IN  [k \in 1..Cardinality(at) |->
            (CHOOSE e \in {st_events[i] : i \in at} : e.idx = k).cat]

RequestedTurns ==
    {st_events[i].idx : i \in {j \in 1..Len(st_events) :
                                   st_events[j].kind = "request"}}

C29_OneSearchModeByPriority ==
    /\ [](call_pc # "called" =>
            LET filters == call_args.filters
            IN  /\ Len(call_ret.invoked) <= 1
                /\ call_ret.invoked =
                     IF filters.keyword THEN <<"perform_simple_search">>
                     ELSE IF filters.tender_status
                          THEN <<"search_by_status">>
                     ELSE IF \E f \in FilterNames : filters[f]
                          THEN <<"perform_search">>
                     ELSE <<>>
                /\ filters.keyword => call_ret.applied \subseteq {"keyword"})
    /\ [][call_pc = "searched" => call_pc' = "extract_list"]_vars

\* C29 witness: keyword, status and organization are given, the quick
\* search and the form both fail, and the run is at the listing extraction
\* having invoked the keyword search only
C29_Witness ==
    /\ call_pc = "extract_list"
    /\ call_args.filters.keyword
    /\ call_args.filters.tender_status
    /\ call_args.filters.organization
    /\ call_ret.invoked = <<"perform_simple_search">>
    /\ call_ret.flag = "False"
    /\ call_ret.applied = {}

\* ----------------------------------------------------------- claim C30
\* C30 (as claimed): a value returned by the table scan stands in the cell
\* next to a cell whose text is not empty and contains the label or is
\* contained in it, letter case apart; the value is not empty and is not
\* one of the blank markers "N/A" and "N A".
C30_ValueNextToLabelCell ==
    (call_pc = "returned" /\ call_ret.value # <<>>) =>
        LET page == call_args.page
            label == Lower(call_args.label)
        IN  /\ \E r \in 1..Len(page) : \E c \in 1..(Len(page[r]) - 1) :
                   /\ page[r][c] # <<>>
                   /\ \/ Occurs(label, Lower(page[r][c]))
                      \/ Occurs(Lower(page[r][c]), label)
                   /\ page[r][c + 1] = call_ret.value
            /\ call_ret.value
                 \notin {<<"N", "/", "A">>, <<"N", " ", "A">>}
====
